---- MODULE Spec2Model ----
(***************************************************************************)
(* Analytics and benchmarking engine of the policy simulator.             *)
(*                                                                         *)
(*   BenchmarkService          src/src/backend/services/benchmark_service.py *)
(*   AdvancedAnalyticsService  src/src/backend/services/advanced_analytics.py *)
(*                                                                         *)
(* Floating point quantities are modelled exactly: a finite number is a   *)
(* reduced fraction <<numerator, denominator>> with denominator > 0, and   *)
(* the IEEE values NaN and +-inf are the pairs <<0, 0>> and <<+-1, 0>>.     *)
(***************************************************************************)
EXTENDS Integers, Sequences, FiniteSets, TLC

VARIABLES
    country_data,   \* compare_countries: country -> data dict, in request order
    rankings,       \* compare_countries: the CountryComparison returned
    request,        \* BenchmarkService: the request of the last call
    merged_df,      \* data_processor.merged_df: the table the analytics read
    result,         \* the last call of a service and what it returned
    analytics_cache,    \* AdvancedAnalyticsService.analytics_cache
    now,            \* the clock read by datetime.utcnow()
    calls,          \* the calls made so far on the services, oldest first
    engine,         \* PolicySimulationEngine: is_trained, feature_importance, model_metrics
    api             \* simulation_api: the globals model_trained and baseline_data_cache

vars == <<country_data, rankings, request, merged_df, result, analytics_cache, now, calls,
          engine, api>>

\* Optional[x]: None is the empty tuple and a present value x is <<x>>
None == <<>>
Some(x) == <<x>>

(***************************************************************************)
(* Exact arithmetic                                                        *)
(***************************************************************************)
Abs(x) == IF x < 0 THEN -x ELSE x

RECURSIVE GCD(_, _)
GCD(a, b) == IF b = 0 THEN a ELSE GCD(b, a % b)

\* the fraction n/d (d # 0) in lowest terms with a positive denominator
Rat(n, d) ==
    LET s == IF d < 0 THEN -1 ELSE 1
        g == GCD(Abs(n), Abs(d))
    IN  <<(s * n) \div g, (s * d) \div g>>

RatInt(n) == <<n, 1>>
RatAdd(a, b) == Rat(a[1] * b[2] + b[1] * a[2], a[2] * b[2])
RatSub(a, b) == Rat(a[1] * b[2] - b[1] * a[2], a[2] * b[2])
RatMul(a, b) == Rat(a[1] * b[1], a[2] * b[2])
RatDiv(a, b) == Rat(a[1] * b[2], a[2] * b[1])
RatLt(a, b) == a[1] * b[2] < b[1] * a[2]
RatLe(a, b) == a[1] * b[2] <= b[1] * a[2]

Sign(x) == IF x < 0 THEN -1 ELSE IF x = 0 THEN 0 ELSE 1

\* IEEE values outside the rationals keep the pair shape: NaN is 0/0, the infinities +-1/0
NaN == <<0, 0>>
Inf(sign) == <<sign, 0>>
IsNaN(x) == x = NaN
IsFinite(x) == x[2] # 0
\* float arithmetic on finite values and NaN
FloatDiv(a, b) ==
    IF IsNaN(a) \/ IsNaN(b) THEN NaN
    ELSE IF ~IsFinite(a) THEN (IF IsFinite(b) THEN Inf(a[1] * (IF b[1] < 0 THEN -1 ELSE 1)) ELSE NaN)
    ELSE IF ~IsFinite(b) THEN RatInt(0)
    ELSE IF b[1] = 0 THEN (IF a[1] = 0 THEN NaN ELSE Inf(Sign(a[1])))
    ELSE RatDiv(a, b)
FloatSub(a, b) == IF IsNaN(a) \/ IsNaN(b) THEN NaN ELSE RatSub(a, b)
FloatMul(a, b) ==
    IF IsNaN(a) \/ IsNaN(b) THEN NaN
    ELSE IF IsFinite(a) /\ IsFinite(b) THEN RatMul(a, b)
    ELSE IF a[1] = 0 \/ b[1] = 0 THEN NaN
    ELSE Inf(Sign(a[1]) * Sign(b[1]))
\* comparisons with NaN are false
FloatLt(a, b) ==
    /\ ~IsNaN(a) /\ ~IsNaN(b)
    /\ IF IsFinite(a) /\ IsFinite(b) THEN RatLt(a, b)
       ELSE IF ~IsFinite(a) /\ ~IsFinite(b) THEN a[1] < b[1]
       ELSE IF ~IsFinite(a) THEN a[1] < 0
       ELSE b[1] > 0
FloatEq(a, b) == ~IsNaN(a) /\ ~IsNaN(b) /\ a = b
FloatLe(a, b) == FloatLt(a, b) \/ FloatEq(a, b)

RECURSIVE SeqSum(_)
SeqSum(s) == IF s = <<>> THEN 0 ELSE Head(s) + SeqSum(Tail(s))

RECURSIVE RatSeqSum(_)
RatSeqSum(s) == IF s = <<>> THEN RatInt(0) ELSE RatAdd(Head(s), RatSeqSum(Tail(s)))

\* Python dict keys keep the order of first insertion
RECURSIVE Dedup(_)
Dedup(s) ==
    IF s = <<>> THEN <<>>
    ELSE LET r == Dedup(SubSeq(s, 1, Len(s) - 1))
             x == s[Len(s)]
         IN  IF \E i \in 1..Len(r) : r[i] = x THEN r ELSE Append(r, x)

(***************************************************************************)
(* BenchmarkService: compare_countries / _calculate_rankings               *)
(***************************************************************************)
MaxCountries == 3       \* countries in one comparison request
MaxVal == 1             \* metric values are 0..MaxVal

\* MetricType, in the order of the enum
MetricType == <<"life_expectancy", "doctor_density", "nurse_density", "health_spending">>
MetricTypeSet == {MetricType[i] : i \in 1..Len(MetricType)}

DataKeys == {"life_expectancy", "doctor_density", "nurse_density", "government_spending"}
CountryCodes == <<"PRT", "ESP", "SWE", "GRC", "DEU">>

\* self.metric_weights.get(MetricType(name), 0.25), as a fraction
metric_weights_bad(name) ==
    IF name = "life_expectancy" THEN Rat(4, 10)
    ELSE IF name \in {"doctor_density", "nurse_density", "government_spending"} THEN Rat(2, 10)
    ELSE Rat(25, 100)

metric_weights(name) ==
    IF name = "life_expectancy" THEN Rat(4, 10)
    ELSE IF name \in {"doctor_density", "nurse_density", "health_spending"} THEN Rat(2, 10)
    ELSE Rat(25, 100)

get_metric_value(data, metric) ==
    LET key == CASE metric = "life_expectancy" -> "life_expectancy"
                 [] metric = "doctor_density" -> "doctor_density"
                 [] metric = "nurse_density" -> "nurse_density"
                 [] metric = "health_spending" -> "government_spending"
                 [] OTHER -> ""
    IN  IF key \in DOMAIN data THEN data[key] ELSE None

\* the (country, value) pairs of one metric, in the order of country_data
metric_values(cd, metric) ==
    LET has(i) == get_metric_value(cd[i].data, metric) # None
        idx == SelectSeq([i \in 1..Len(cd) |-> i], has)
    IN  [k \in 1..Len(idx) |->
            [country |-> cd[idx[k]].country,
             value |-> get_metric_value(cd[idx[k]].data, metric)[1]]]

\* sorted(values, key=lambda x: x[1], reverse=True): stable, equal values keep their order
RECURSIVE InsertValueLast(_, _)
InsertValueLast(s, x) ==
    IF s = <<>> THEN <<x>>
    ELSE IF Head(s).value >= x.value THEN <<Head(s)>> \o InsertValueLast(Tail(s), x)
    ELSE <<x>> \o s

RECURSIVE sorted_reverse(_)
sorted_reverse(s) ==
    IF s = <<>> THEN <<>>
    ELSE InsertValueLast(sorted_reverse(SubSeq(s, 1, Len(s) - 1)), s[Len(s)])

\* percentile = (len(sorted_values) - rank + 1) / len(sorted_values) * 100
percentile_bad(n, rank) == Rat((n - rank) * 100, n)

percentile_of(n, rank) == Rat((n - rank + 1) * 100, n)

\* the HealthMetric entries of one metric, in rank order
metric_entries(cd, metric) ==
    LET sorted_values == sorted_reverse(metric_values(cd, metric))
        n == Len(sorted_values)
    IN  [rank \in 1..n |->
            [country |-> sorted_values[rank].country,
             name |-> metric,
             value |-> sorted_values[rank].value,
             rank |-> rank,
             percentile |-> percentile_of(n, rank)]]

\* country_metrics[country]: its HealthMetric list, one per metric it has, in metric order;
\* entries[k] are the HealthMetric entries of the k-th metric
RECURSIVE country_metrics(_, _, _)
country_metrics(entries, k, country) ==
    IF k > Len(entries) THEN <<>>
    ELSE SelectSeq(entries[k], LAMBDA h : h.country = country)
           \o country_metrics(entries, k + 1, country)

\* overall_score = total_score / total_weight if total_weight > 0 else 0
overall_score(metrics_list) ==
    LET n == Len(metrics_list)
        total_score == RatSeqSum([i \in 1..n |->
            RatMul(RatDiv(metrics_list[i].percentile, RatInt(100)),
                   metric_weights(metrics_list[i].name))])
        total_weight == RatSeqSum([i \in 1..n |-> metric_weights(metrics_list[i].name)])
    IN  IF RatLt(RatInt(0), total_weight) THEN RatDiv(total_score, total_weight)
        ELSE RatInt(0)

\* Rat keys are compared through a common integer scale in the sort
ScoreGe(a, b) == RatLe(b, a)

RECURSIVE InsertScoreLast(_, _)
InsertScoreLast(s, x) ==
    IF s = <<>> THEN <<x>>
    ELSE IF ScoreGe(Head(s).total_score, x.total_score)
         THEN <<Head(s)>> \o InsertScoreLast(Tail(s), x)
    ELSE <<x>> \o s

RECURSIVE InsertScoreFirst(_, _)
InsertScoreFirst(s, x) ==
    IF s = <<>> THEN <<x>>
    ELSE IF RatLt(x.total_score, Head(s).total_score)
         THEN <<Head(s)>> \o InsertScoreFirst(Tail(s), x)
    ELSE <<x>> \o s

\* rankings.sort(key=total_score, reverse=True) with ties put first: not what list.sort does
RECURSIVE sort_rankings_bad(_)
sort_rankings_bad(s) ==
    IF s = <<>> THEN <<>>
    ELSE InsertScoreFirst(sort_rankings_bad(SubSeq(s, 1, Len(s) - 1)), s[Len(s)])

\* rankings.sort(key=total_score, reverse=True): stable
RECURSIVE sort_rankings(_)
sort_rankings(s) ==
    IF s = <<>> THEN <<>>
    ELSE InsertScoreLast(sort_rankings(SubSeq(s, 1, Len(s) - 1)), s[Len(s)])

calculate_rankings(cd, metrics) ==
    LET ms == Dedup(metrics)
        entries == [k \in 1..Len(ms) |-> metric_entries(cd, ms[k])]
        entry(i) == [country_code |-> cd[i].country,
                     overall_rank |-> 0,
                     metrics |-> country_metrics(entries, 1, cd[i].country)]
        all == [i \in 1..Len(cd) |-> entry(i)]
        ranked == SelectSeq(all, LAMBDA r : r.metrics # <<>>)
        scored == [i \in 1..Len(ranked) |->
                     [ranked[i] EXCEPT !.overall_rank = 0] @@
                     [total_score |-> overall_score(ranked[i].metrics)]]
        sorted == sort_rankings(scored)
    IN  [i \in 1..Len(sorted) |-> [sorted[i] EXCEPT !.overall_rank = i]]

(***************************************************************************)
(* BenchmarkService: anomaly detection                                     *)
(***************************************************************************)
\* _get_historical_values: "Simplified - in real implementation, would query historical
\* data"; returns [] for every country, metric and number of years
get_historical_values(country, metric, years) == <<>>

\* (z_score)^2 of value against historical_values, with mean_val = np.mean and
\* std_val = np.std (population); both are NaN for an empty list
mean_val(historical_values) ==
    FloatDiv(RatInt(SeqSum(historical_values)), RatInt(Len(historical_values)))

variance(historical_values) ==
    LET n == Len(historical_values)
        s == SeqSum(historical_values)
        ss == SeqSum([i \in 1..n |-> historical_values[i] * historical_values[i]])
    IN  FloatDiv(RatInt(n * ss - s * s), RatInt(n * n))

z_score_sq(value, historical_values) ==
    LET d == FloatSub(RatInt(value), mean_val(historical_values))
    IN  FloatDiv(FloatMul(d, d), variance(historical_values))

\* if z_score > 3: HIGH / elif z_score > 2: MEDIUM / elif z_score > 1.5: LOW / else: continue
severity_of(z_sq) ==
    IF FloatLt(RatInt(9), z_sq) THEN "high"
    ELSE IF FloatLt(RatInt(4), z_sq) THEN "medium"
    ELSE IF FloatLt(Rat(9, 4), z_sq) THEN "low"
    ELSE "none"

\* confidence = min(z_score / 3, 1.0), squared
confidence_sq(z_sq) ==
    LET c == FloatDiv(z_sq, RatInt(9))
    IN  IF FloatLt(RatInt(1), c) THEN RatInt(1) ELSE c

\* _get_anomaly_recommendation: "higher than" / "lower than" the historical average
anomaly_direction(value, historical_values) ==
    IF FloatLt(mean_val(historical_values), RatInt(value)) THEN "higher than" ELSE "lower than"

\* the body of the loops of _detect_anomalies for one country and metric: the alerts
\* (none or one) it appends
country_metric_anomalies(country, data, metric) ==
    LET value == get_metric_value(data, metric)
        historical_values == get_historical_values(country, metric, 5)
    IN  IF value = None THEN <<>>
        ELSE IF Len(historical_values) < 3 THEN <<>>
        ELSE IF FloatEq(variance(historical_values), RatInt(0)) THEN <<>>
        ELSE LET z_sq == z_score_sq(value[1], historical_values)
             IN  IF severity_of(z_sq) = "none" THEN <<>>
                 ELSE <<[country |-> country,
                         metric |-> metric,
                         severity |-> severity_of(z_sq),
                         confidence_sq |-> confidence_sq(z_sq),
                         direction |-> anomaly_direction(value[1], historical_values)]>>

\* _detect_anomalies: for country, data in country_data.items(): for metric in metrics
RECURSIVE metrics_anomalies(_, _, _)
metrics_anomalies(country, data, metrics) ==
    IF metrics = <<>> THEN <<>>
    ELSE country_metric_anomalies(country, data, Head(metrics))
           \o metrics_anomalies(country, data, Tail(metrics))

RECURSIVE detect_country_anomalies(_, _)
detect_country_anomalies(cd, metrics) ==
    IF cd = <<>> THEN <<>>
    ELSE metrics_anomalies(Head(cd).country, Head(cd).data, metrics)
           \o detect_country_anomalies(Tail(cd), metrics)

\* _get_historical_data: "Simplified - in real implementation, would query historical
\* data"; returns []
get_historical_data(country, metric, years) == <<>>

\* _detect_metric_anomalies: "Simplified anomaly detection"; returns []
detect_metric_anomalies(country, metric, historical_data, sensitivity) == <<>>

\* 0.0 if total_analyzed == 0, else min(total_analyzed / 100, 1.0)
calculate_detection_confidence(anomalies, total_analyzed) ==
    IF total_analyzed = 0 THEN RatInt(0)
    ELSE IF total_analyzed > 100 THEN RatInt(1)
    ELSE Rat(total_analyzed, 100)

\* the pairs the two loops of detect_anomalies visit, in order
scan_pairs(countries, metrics) ==
    [k \in 1..(Len(countries) * Len(metrics)) |->
        [country |-> countries[((k - 1) \div Len(metrics)) + 1],
         metric |-> metrics[((k - 1) % Len(metrics)) + 1]]]

\* the loops stop at the first pair without historical data instead of going on
RECURSIVE scan_bad(_, _, _)
scan_bad(pairs, timeframe, sensitivity) ==
    IF pairs = <<>> THEN [anomalies |-> <<>>, total_analyzed |-> 0, scanned |-> <<>>]
    ELSE LET p == Head(pairs)
             historical_data == get_historical_data(p.country, p.metric, timeframe)
             rest == scan_bad(Tail(pairs), timeframe, sensitivity)
         IN  IF historical_data = <<>>
             THEN [anomalies |-> <<>>, total_analyzed |-> 0, scanned |-> <<p>>]
             ELSE [anomalies |-> detect_metric_anomalies(p.country, p.metric,
                                     historical_data, sensitivity) \o rest.anomalies,
                   total_analyzed |-> Len(historical_data) + rest.total_analyzed,
                   scanned |-> <<p>> \o rest.scanned]

\* the loops of detect_anomalies over the pairs: "if not historical_data: continue",
\* total_analyzed += len(historical_data), all_anomalies.extend(...); scanned lists the
\* pairs the loops have visited
RECURSIVE scan(_, _, _)
scan(pairs, timeframe, sensitivity) ==
    IF pairs = <<>> THEN [anomalies |-> <<>>, total_analyzed |-> 0, scanned |-> <<>>]
    ELSE LET p == Head(pairs)
             historical_data == get_historical_data(p.country, p.metric, timeframe)
             rest == scan(Tail(pairs), timeframe, sensitivity)
         IN  IF historical_data = <<>>
             THEN [rest EXCEPT !.scanned = <<p>> \o @]
             ELSE [anomalies |-> detect_metric_anomalies(p.country, p.metric,
                                     historical_data, sensitivity) \o rest.anomalies,
                   total_analyzed |-> Len(historical_data) + rest.total_analyzed,
                   scanned |-> <<p>> \o rest.scanned]

\* detect_anomalies(request): countries = [request.country] or all available ones,
\* metrics = [request.metric] or list(MetricType). The AnomalyDetectionResponse has the
\* fields anomalies, total_analyzed, detection_confidence and parameters; status is "ok"
\* as no step of the call raises, and scanned is the position record of the two loops
detect_anomalies(req, available_countries) ==
    LET countries == IF req.country # None THEN <<req.country[1]>> ELSE available_countries
        metrics == IF req.metric # None THEN <<req.metric[1]>> ELSE MetricType
        s == scan(scan_pairs(countries, metrics), req.timeframe, req.sensitivity)
    IN  [status |-> "ok",
         anomalies |-> s.anomalies,
         total_analyzed |-> s.total_analyzed,
         detection_confidence |-> calculate_detection_confidence(s.anomalies,
                                                                 s.total_analyzed),
         parameters |-> [sensitivity |-> req.sensitivity, timeframe |-> req.timeframe,
                         country |-> req.country, metric |-> req.metric],
         scanned |-> s.scanned]

\* compare_countries: DataNotFoundError when a country has no data ("if not data"),
\* else the rankings over request.metrics or list(MetricType), and the anomalies of
\* _detect_anomalies (request.include_anomalies keeps its default, True)
compare_countries(cd, req_metrics) ==
    IF \E i \in 1..Len(cd) : DOMAIN cd[i].data = {}
    THEN [status |-> "DataNotFoundError", rankings |-> <<>>, anomalies |-> <<>>]
    ELSE LET metrics == IF req_metrics = <<>> THEN MetricType ELSE req_metrics
         IN  [status |-> "ok",
              rankings |-> calculate_rankings(cd, metrics),
              anomalies |-> detect_country_anomalies(cd, metrics)]

\* request.metrics: absent (None), one metric, or several in some order
RequestMetrics ==
    {None, <<"life_expectancy">>,
     <<"health_spending", "nurse_density", "doctor_density", "life_expectancy", "nurse_density">>}

\* the data dicts of get_country_data(country, year): empty (no data), or two of the
\* four keys recorded, each None or a value 0..MaxVal
KeyPairs == {{"life_expectancy", "government_spending"}, {"doctor_density", "nurse_density"}}
OptValues == {None} \cup {Some(v) : v \in 0..MaxVal}
DataDicts(P) == [P -> OptValues] \cup {<<>>}
CountryData(f) == [i \in DOMAIN f |-> [country |-> CountryCodes[i], data |-> f[i]]]

NoRequest == [op |-> "none", metrics |-> <<>>]
NoRankings == [status |-> "none", rankings |-> <<>>]

EmptyTable == [columns |-> {}, rows |-> <<>>, raises |-> {}]
NoResult == [op |-> "none", status |-> "none"]

\* the state of the services a specification does not exercise: the constructors' values
NoEngine == [is_trained |-> FALSE, feature_importance |-> <<>>, model_metrics |-> <<>>,
             fitted |-> FALSE]
NoApi == [model_trained |-> FALSE, baseline_data_cache |-> <<>>]
NoOtherState ==
    /\ analytics_cache = <<>>
    /\ now = 0
    /\ calls = <<>>
    /\ engine = NoEngine
    /\ api = NoApi

InitRank ==
    /\ \E n \in 2..MaxCountries, P \in KeyPairs :
         \E f \in [1..n -> DataDicts(P)] : country_data = CountryData(f)
    /\ rankings = NoRankings
    /\ request = NoRequest
    /\ merged_df = EmptyTable
    /\ result = NoResult
    /\ NoOtherState

CompareCountries ==
    /\ request.op = "none"
    /\ \E ms \in RequestMetrics :
        /\ request' = [op |-> "compare_countries", metrics |-> ms]
        /\ rankings' = compare_countries(country_data, ms)
    /\ UNCHANGED <<country_data, merged_df, result, analytics_cache, now, calls,
                 engine, api>>

NextRank == CompareCountries

SpecRank == InitRank /\ [][NextRank]_vars

(***************************************************************************)
(* Claims on the Ranker                                                    *)
(***************************************************************************)
Ranked == request.op = "compare_countries" /\ rankings.status = "ok"
RequestedMetrics == IF request.metrics = <<>> THEN MetricTypeSet
                    ELSE {request.metrics[i] : i \in 1..Len(request.metrics)}
NCountries == Len(country_data)
RawValue(i, m) == get_metric_value(country_data[i].data, m)
AllHave(m) == \A i \in 1..NCountries : RawValue(i, m) # None
RankingOf(i) == CHOOSE r \in {rankings.rankings[k] : k \in 1..Len(rankings.rankings)} :
                    r.country_code = country_data[i].country
IsRanked(i) == \E k \in 1..Len(rankings.rankings) :
                    rankings.rankings[k].country_code = country_data[i].country
MetricsNamed(r, m) == {k \in 1..Len(r.metrics) : r.metrics[k].name = m}
\* rank from the top: higher raw value first, ties in input order
RankFromTop(i, m) ==
    1 + Cardinality({j \in 1..NCountries : RawValue(j, m)[1] > RawValue(i, m)[1]})
      + Cardinality({j \in 1..(i - 1) : RawValue(j, m) = RawValue(i, m)})

\* C1: on an indicator every compared country has, the country at rank k from the top gets
\* rank k and percentile 100*(N-k+1)/N, the ranks are exactly 1..N, and distinct raw
\* values give pairwise distinct percentiles
C1_PercentilePartition ==
    Ranked => \A m \in RequestedMetrics : AllHave(m) =>
        /\ \A i \in 1..NCountries :
              /\ IsRanked(i)
              /\ Cardinality(MetricsNamed(RankingOf(i), m)) = 1
              /\ \A k \in MetricsNamed(RankingOf(i), m) :
                    /\ RankingOf(i).metrics[k].rank = RankFromTop(i, m)
                    /\ RankingOf(i).metrics[k].percentile[1] * NCountries
                         = 100 * (NCountries - RankFromTop(i, m) + 1)
                            * RankingOf(i).metrics[k].percentile[2]
        /\ {RankFromTop(i, m) : i \in 1..NCountries} = 1..NCountries
        /\ (\A i, j \in 1..NCountries : i # j => RawValue(i, m) # RawValue(j, m))
             => \A i, j \in 1..NCountries : i # j =>
                  \A k \in MetricsNamed(RankingOf(i), m), l \in MetricsNamed(RankingOf(j), m) :
                     RankingOf(i).metrics[k].percentile # RankingOf(j).metrics[l].percentile

\* Example 4 of the specification: two countries, the higher one gets 100 and the other 50
C1_Witness ==
    /\ Ranked /\ NCountries = 2 /\ AllHave("life_expectancy")
    /\ RawValue(1, "life_expectancy")[1] < RawValue(2, "life_expectancy")[1]
    /\ \E k \in MetricsNamed(RankingOf(2), "life_expectancy") :
          RankingOf(2).metrics[k].rank = 1 /\ RankingOf(2).metrics[k].percentile = <<100, 1>>
    /\ \E k \in MetricsNamed(RankingOf(1), "life_expectancy") :
          RankingOf(1).metrics[k].rank = 2 /\ RankingOf(1).metrics[k].percentile = <<50, 1>>

\* the weights of the composite score, in tenths
ClaimedWeight(m) == IF m = "life_expectancy" THEN 4 ELSE 2

\* C2: total_score is the weighted average of the country's percentiles over 100, with
\* weights 0.4 (life expectancy) and 0.2 (the others), normalised by the weights of the
\* indicators the country has, and lies in [0,1]
C2_CompositeScore ==
    Ranked => \A r \in 1..Len(rankings.rankings) :
        LET R == rankings.rankings[r]
            ks == 1..Len(R.metrics)
            wsum == SeqSum([k \in ks |-> ClaimedWeight(R.metrics[k].name)])
            psum == RatSeqSum([k \in ks |->
                        RatMul(RatInt(ClaimedWeight(R.metrics[k].name)), R.metrics[k].percentile)])
        IN  /\ wsum > 0
            /\ RatMul(R.total_score, RatInt(100 * wsum)) = psum
            /\ RatLe(RatInt(0), R.total_score) /\ RatLe(R.total_score, RatInt(1))

\* a country with two differently weighted indicators and different percentiles on them
C2_Witness ==
    /\ Ranked
    /\ \E r \in 1..Len(rankings.rankings) :
        LET R == rankings.rankings[r] IN
          /\ Len(R.metrics) = 2
          /\ ClaimedWeight(R.metrics[1].name) # ClaimedWeight(R.metrics[2].name)
          /\ R.metrics[1].percentile # R.metrics[2].percentile
          /\ R.metrics[1].name = "health_spending" \/ R.metrics[2].name = "health_spending"

InputPosition(code) == CHOOSE i \in 1..NCountries : country_data[i].country = code

\* C3: the rankings are in descending composite score, overall_rank is the position in the
\* list (1..M, M the number of countries with a value), and equal scores keep input order
C3_OverallRank ==
    Ranked =>
        LET L == rankings.rankings
            M == Cardinality({i \in 1..NCountries :
                     \E m \in RequestedMetrics : RawValue(i, m) # None})
        IN  /\ Len(L) = M
            /\ \A k \in 1..Len(L) : L[k].overall_rank = k
            /\ \A k \in 1..(Len(L) - 1) : RatLe(L[k + 1].total_score, L[k].total_score)
            /\ \A k, l \in 1..Len(L) :
                  (k < l /\ L[k].total_score = L[l].total_score)
                    => InputPosition(L[k].country_code) < InputPosition(L[l].country_code)

\* three ranked countries, the last two tied on the composite score
C3_Witness ==
    /\ Ranked /\ Len(rankings.rankings) = 3
    /\ RatLt(rankings.rankings[2].total_score, rankings.rankings[1].total_score)
    /\ rankings.rankings[2].total_score = rankings.rankings[3].total_score

(***************************************************************************)
(* AdvancedAnalyticsService: the table and _get_indicator_data             *)
(*                                                                         *)
(* merged_df is [columns, rows]; a row is [year, country, vals] with vals  *)
(* an Optional value per column (None is the NaN of a missing cell). A     *)
(* country or time_period argument of None is the empty tuple.             *)
(***************************************************************************)
FirstYear == 2020
MaxYears == 3           \* years a table covers: FirstYear..FirstYear+MaxYears-1
MaxSeriesVal == 2       \* indicator values of the series are 0..MaxSeriesVal
MaxHorizon == 2         \* forecast_years is 0..MaxHorizon

Years == FirstYear..(FirstYear + MaxYears - 1)
LastYear == FirstYear + MaxYears - 1
Indicators == {"life_expectancy", "doctor_density"}

\* df.sort_values('year'): ascending
RECURSIVE InsertByYear(_, _)
InsertByYear(s, x) ==
    IF s = <<>> THEN <<x>>
    ELSE IF Head(s).year <= x.year THEN <<Head(s)>> \o InsertByYear(Tail(s), x)
    ELSE <<x>> \o s

RECURSIVE sort_values_year(_)
sort_values_year(s) ==
    IF s = <<>> THEN <<>>
    ELSE InsertByYear(sort_values_year(SubSeq(s, 1, Len(s) - 1)), s[Len(s)])

\* the end year left out
in_time_period_bad(year, time_period) == time_period[1] <= year /\ year < time_period[2]

\* (df['year'] >= start_year) & (df['year'] <= end_year)
in_time_period(year, time_period) == time_period[1] <= year /\ year <= time_period[2]

\* the rows of the frame with columns year, country, value that _get_indicator_data returns
get_indicator_data(df, indicator, country, time_period) ==
    IF indicator \in df.columns
    THEN LET keep(r) == /\ r.vals[indicator] # None
                        /\ (country # <<>> => r.country = country[1])
                        /\ (time_period # <<>> => in_time_period(r.year, time_period))
             kept == SelectSeq(df.rows, keep)
         IN  sort_values_year([i \in 1..Len(kept) |->
                 [year |-> kept[i].year, country |-> kept[i].country,
                  value |-> kept[i].vals[indicator][1]]])
    ELSE <<>>

\* the k-th call of _get_indicator_data within one call of the service: df.raises holds
\* the calls whose read of data_processor.merged_df raises; the exception is caught by
\* "except Exception" inside _get_indicator_data, which returns an empty frame
read_indicator_data(df, k, indicator, country, time_period) ==
    IF k \in df.raises THEN <<>>
    ELSE get_indicator_data(df, indicator, country, time_period)

\* the data source as seen after n calls of _get_indicator_data
after_reads(df, n) == [df EXCEPT !.raises = {k - n : k \in {r \in @ : r > n}}]

(***************************************************************************)
(* scipy.stats.linregress and perform_trend_analysis                       *)
(***************************************************************************)
\* n times the centred sums: n*sum(a*b) - sum(a)*sum(b)
CrossSum(a, b) ==
    Len(a) * SeqSum([i \in 1..Len(a) |-> a[i] * b[i]]) - SeqSum(a) * SeqSum(b)

\* a correlation coefficient r is kept as its sign and its square
RValue(sxy, sxx, syy) ==
    IF sxx = 0 \/ syy = 0 THEN [sgn |-> 0, sq |-> RatInt(0)]
    ELSE [sgn |-> Sign(sxy), sq |-> Rat(sxy * sxy, sxx * syy)]

\* linregress(x, y) for a non-empty sample: slope, r and p-value, or the ValueError it
\* raises when several x are all identical
linregress(x, y) ==
    LET n == Len(x)
        sxx == CrossSum(x, x)
        sxy == CrossSum(x, y)
        syy == CrossSum(y, y)
        r == RValue(sxy, sxx, syy)
    IN  IF n > 1 /\ sxx = 0
        THEN [raised |-> TRUE]
        ELSE [raised |-> FALSE,
              slope |-> FloatDiv(Rat(sxy, n * n), Rat(sxx, n * n)),
              r_value |-> r,
              \* n = 2: 1.0 or 0.0; n = 1: NaN; else two-sided t with n-2 degrees of freedom
              p_value |-> IF n = 2 THEN [kind |-> "exact",
                                        value |-> IF y[1] = y[2] THEN RatInt(1) ELSE RatInt(0)]
                          ELSE IF n < 2 THEN [kind |-> "exact", value |-> NaN]
                          ELSE [kind |-> "two_sided_t", df |-> n - 2,
                                t_sq |-> FloatDiv(RatMul(r.sq, RatInt(n - 2)),
                                                  RatSub(RatInt(1), r.sq))],
              \* the square of the standard error of the slope
              std_err_sq |-> IF n = 2 THEN RatInt(0)
                             ELSE IF n < 2 THEN NaN
                             ELSE RatDiv(RatMul(RatSub(RatInt(1), r.sq), Rat(syy, sxx)),
                                         RatInt(n - 2))]

\* "increasing" if slope > 0 else "decreasing" if slope < 0 else "stable"
trend_direction_bad(slope) ==
    IF FloatLe(RatInt(0), slope) THEN "increasing"
    ELSE IF FloatLt(slope, RatInt(0)) THEN "decreasing" ELSE "stable"

trend_direction_of(slope) ==
    IF FloatLt(RatInt(0), slope) THEN "increasing"
    ELSE IF FloatLt(slope, RatInt(0)) THEN "decreasing" ELSE "stable"

\* the dict perform_trend_analysis returns
perform_trend_analysis(df, indicator, country, time_period) ==
    LET data == read_indicator_data(df, 1, indicator, country, time_period)
        n == Len(data)
        years == [i \in 1..n |-> data[i].year]
        values == [i \in 1..n |-> data[i].value]
        fit == linregress(years, values)
        total_change == FloatMul(fit.slope, RatInt(years[n] - years[1]))
    IN  IF data = <<>>
        THEN [status |-> "error", error |-> "No data available for the specified parameters"]
        ELSE IF fit.raised
        THEN [status |-> "error", error |-> "Trend analysis failed"]
        ELSE [status |-> "ok",
              indicator |-> indicator,
              country |-> country,
              time_period |-> [start |-> years[1], end |-> years[n]],
              trend_direction |-> trend_direction_of(fit.slope),
              trend_strength |-> [sgn |-> Abs(fit.r_value.sgn), sq |-> fit.r_value.sq],
              annual_change |-> fit.slope,
              total_change |-> total_change,
              change_percentage |-> IF values[1] # 0
                                    THEN FloatMul(FloatDiv(total_change, RatInt(values[1])),
                                                  RatInt(100))
                                    ELSE RatInt(0),
              statistical_significance |-> fit.p_value,
              \* slope -+ t(0.975, n-2) * std_err; NaN when n <= 2
              confidence_interval |-> [center |-> fit.slope, df |-> n - 2,
                                       std_err_sq |-> fit.std_err_sq],
              r_squared |-> fit.r_value.sq,
              sample_size |-> n,
              data_points |-> [i \in 1..n |-> [year |-> years[i], value |-> values[i]]]]

(***************************************************************************)
(* generate_forecast                                                       *)
(***************************************************************************)
\* the sign of stats.t.ppf(q, df): NaN without degrees of freedom or outside [0,1]
t_ppf_sign(q, df) ==
    IF df <= 0 \/ RatLt(q, RatInt(0)) \/ RatLt(RatInt(1), q) THEN "nan"
    ELSE IF q = RatInt(0) THEN "-inf"
    ELSE IF q = RatInt(1) THEN "inf"
    ELSE IF RatLt(q, Rat(1, 2)) THEN "neg"
    ELSE IF q = Rat(1, 2) THEN "zero"
    ELSE "pos"

\* the lower tail (1 - confidence_level) / 2 in place of the upper one
upper_quantile_bad(confidence_level) == RatDiv(RatSub(RatInt(100), RatInt(confidence_level)), RatInt(200))

\* (1 + confidence_level) / 2, confidence_level in percent
upper_quantile(confidence_level) == RatDiv(RatAdd(RatInt(100), RatInt(confidence_level)), RatInt(200))

\* margin_error = t_critical * std_error * sqrt(1 + 1/n): its sign, with mse = std_error^2
margin_error(confidence_level, n, mse) ==
    LET t == t_ppf_sign(upper_quantile(confidence_level), n - 2)
    IN  [quantile |-> upper_quantile(confidence_level), df |-> n - 2, mse |-> mse,
         sign |-> IF t = "nan" THEN "nan"
                  ELSE IF t \in {"inf", "-inf"}
                       THEN (IF mse = RatInt(0) THEN "nan" ELSE t)
                  ELSE IF t = "zero" \/ mse = RatInt(0) THEN "zero"
                  ELSE t]

\* list(range(last_year + 1, last_year + forecast_years + 1))
forecast_years_list(last_year, forecast_years) ==
    [i \in 1..forecast_years |-> last_year + i]

MinForecastPoints == 3

\* len(df) < 2 in place of len(df) < 3
too_short_to_forecast_bad(data) == Len(data) < MinForecastPoints - 1

\* df.empty or len(df) < 3
too_short_to_forecast(data) == data = <<>> \/ Len(data) < MinForecastPoints

\* the dict generate_forecast returns
generate_forecast(df, indicator, country, forecast_years, confidence_level) ==
    LET data == read_indicator_data(df, 1, indicator, country, <<>>)
        n == Len(data)
        years == [i \in 1..n |-> data[i].year]
        values == [i \in 1..n |-> data[i].value]
        sxx == CrossSum(years, years)
        sxy == CrossSum(years, values)
        syy == CrossSum(values, values)
        \* LinearRegression().fit: least squares, the minimum-norm solution if x is constant
        slope == IF sxx = 0 THEN RatInt(0) ELSE Rat(sxy, sxx)
        intercept == RatSub(Rat(SeqSum(values), n), RatMul(slope, Rat(SeqSum(years), n)))
        predict(year) == RatAdd(intercept, RatMul(slope, RatInt(year)))
        \* mse = mean(residuals ** 2)
        mse == IF sxx = 0 THEN Rat(syy, n * n) ELSE Rat(syy * sxx - sxy * sxy, sxx * n * n)
        margin == margin_error(confidence_level, n, mse)
        list == forecast_years_list(years[n], forecast_years)
    IN  IF too_short_to_forecast(data)
        THEN [status |-> "error", error |-> "Insufficient historical data for forecasting"]
        ELSE IF forecast_years <= 0
        \* model.predict on an empty array raises ValueError
        THEN [status |-> "error", error |-> "Forecast generation failed"]
        ELSE [status |-> "ok",
              indicator |-> indicator,
              country |-> country,
              forecast_years |-> forecast_years,
              confidence_level |-> confidence_level,
              model_performance |->
                  [r_squared |-> IF syy = 0 THEN RatInt(1)
                                 ELSE IF sxx = 0 THEN RatInt(0)
                                 ELSE Rat(sxy * sxy, sxx * syy),
                   rmse_sq |-> mse, trend_slope |-> slope, intercept |-> intercept],
              historical_data |-> [i \in 1..n |-> [year |-> years[i], value |-> values[i]]],
              \* confidence_interval: lower = predicted_value - margin, upper = + margin
              forecast_data |-> [i \in 1..Len(list) |->
                  [year |-> list[i],
                   predicted_value |-> predict(list[i]),
                   confidence_interval |-> [center |-> predict(list[i]), margin |-> margin]]]]

(***************************************************************************)
(* statistical_significance_test                                           *)
(***************************************************************************)
\* the squares of the two-sided critical values of Student's t, in hundredths, for the
\* levels 0.1, 0.05, 0.01 and 0.001 (per mille: 100, 50, 10, 1) and 1..6 degrees of freedom
TCriticalSq100(level, df) ==
    CASE level = 100 -> <<3987, 853, 554, 455, 406, 378>>[df]
      [] level = 50 -> <<16144, 1852, 1013, 771, 661, 599>>[df]
      [] level = 10 -> <<405221, 9851, 3412, 2120, 1626, 1374>>[df]
      [] level = 1 -> <<40528376, 99850, 16703, 7413, 4718, 3551>>[df]

\* p < level for the two-sided p-value of a t statistic with the square t_sq:
\* false for NaN, true for an infinite statistic
p_below(t_sq, df, level) ==
    IF IsNaN(t_sq) \/ df < 1 THEN FALSE
    ELSE IF ~IsFinite(t_sq) THEN TRUE
    ELSE t_sq[1] * 100 > TCriticalSq100(level, df) * t_sq[2]

significance_level_of(t_sq, df) ==
    IF p_below(t_sq, df, 1) THEN "highly significant (p < 0.001)"
    ELSE IF p_below(t_sq, df, 10) THEN "very significant (p < 0.01)"
    ELSE IF p_below(t_sq, df, 50) THEN "significant (p < 0.05)"
    ELSE IF p_below(t_sq, df, 100) THEN "marginally significant (p < 0.1)"
    ELSE "not significant (p >= 0.1)"

\* abs(cohens_d) < bound/10, on the square of cohens_d; false for NaN
abs_d_below(d_sq, tenths) == FloatLt(d_sq, Rat(tenths * tenths, 100))

\* the words for the middle two bands exchanged
effect_size_interpretation_bad(d_sq) ==
    IF abs_d_below(d_sq, 2) THEN "negligible"
    ELSE IF abs_d_below(d_sq, 5) THEN "medium"
    ELSE IF abs_d_below(d_sq, 8) THEN "small"
    ELSE "large"

effect_size_interpretation_of(d_sq) ==
    IF abs_d_below(d_sq, 2) THEN "negligible"
    ELSE IF abs_d_below(d_sq, 5) THEN "small"
    ELSE IF abs_d_below(d_sq, 8) THEN "medium"
    ELSE "large"

\* _interpret_statistical_test: the two words it puts into the sentence
interpret_statistical_test(country1, country2, t_sq, dof, d_sq) ==
    [country1 |-> country1, country2 |-> country2,
     significance |-> IF p_below(t_sq, dof, 50) THEN "statistically significant"
                      ELSE "not statistically significant",
     effect_size |-> IF abs_d_below(d_sq, 2) THEN "negligible"
                     ELSE IF abs_d_below(d_sq, 5) THEN "small"
                     ELSE IF abs_d_below(d_sq, 8) THEN "medium"
                     ELSE "large"]

\* a single value taken to have no deviation from its mean
SumSqDev_bad(values) ==
    IF Len(values) < 2 THEN RatInt(0) ELSE Rat(CrossSum(values, values), Len(values))

\* np.var(values, ddof=1) times (n - 1): the sum of squared deviations, NaN for n = 1
SumSqDev(values) ==
    IF Len(values) < 2 THEN NaN ELSE Rat(CrossSum(values, values), Len(values))

\* np.mean(values): NaN for an empty array
Mean(values) == IF values = <<>> THEN NaN ELSE Rat(SeqSum(values), Len(values))

\* df1.empty and df2.empty in place of df1.empty or df2.empty
either_empty_bad(df1, df2) == df1 = <<>> /\ df2 = <<>>

either_empty(df1, df2) == df1 = <<>> \/ df2 = <<>>

\* the dict statistical_significance_test returns
statistical_significance_test(df, indicator, country1, country2, time_period) ==
    LET df1 == read_indicator_data(df, 1, indicator, country1, time_period)
        df2 == read_indicator_data(df, 2, indicator, country2, time_period)
        values1 == [i \in 1..Len(df1) |-> df1[i].value]
        values2 == [i \in 1..Len(df2) |-> df2[i].value]
        n1 == Len(values1)
        n2 == Len(values2)
        dof == n1 + n2 - 2
        diff == FloatSub(Mean(values1), Mean(values2))
        ss1 == SumSqDev(values1)
        ss2 == SumSqDev(values2)
        \* pooled_std ** 2
        pooled_var == IF IsNaN(ss1) \/ IsNaN(ss2) THEN NaN
                      ELSE FloatDiv(RatAdd(ss1, ss2), RatInt(dof))
        d_sq == FloatDiv(FloatMul(diff, diff), pooled_var)
        \* ttest_ind: t = diff / sqrt(pooled_var * (1/n1 + 1/n2))
        t_sq == FloatDiv(FloatMul(diff, diff), FloatMul(pooled_var, Rat(n1 + n2, n1 * n2)))
    IN  IF either_empty(df1, df2)
        THEN [status |-> "error", error |-> "Insufficient data for statistical test"]
        ELSE [status |-> "ok",
              indicator |-> indicator,
              country1 |-> country1,
              country2 |-> country2,
              time_period |-> time_period,
              test_results |->
                  [t_statistic |-> [sgn |-> IF IsNaN(t_sq) THEN 0 ELSE Sign(diff[1]), sq |-> t_sq],
                   p_value |-> [kind |-> "two_sided_t", df |-> dof, t_sq |-> t_sq],
                   significance_level |-> significance_level_of(t_sq, dof),
                   cohens_d |-> [sgn |-> IF IsNaN(d_sq) THEN 0 ELSE Sign(diff[1]), sq |-> d_sq],
                   effect_size_interpretation |-> effect_size_interpretation_of(d_sq)],
              descriptive_statistics |->
                  [country1 |-> [mean |-> Mean(values1), n |-> n1],
                   country2 |-> [mean |-> Mean(values2), n |-> n2]],
              interpretation |-> interpret_statistical_test(country1, country2, t_sq, dof, d_sq)]

(***************************************************************************)
(* calculate_correlations                                                  *)
(***************************************************************************)
\* pd.merge(df1, df2, on=['year', 'country']): the inner join, in the order of df1
RECURSIVE merge_on_year_country(_, _)
merge_on_year_country(df1, df2) ==
    IF df1 = <<>> THEN <<>>
    ELSE LET row == Head(df1)
             match == SelectSeq(df2, LAMBDA r : r.year = row.year /\ r.country = row.country)
         IN  [k \in 1..Len(match) |->
                 [year |-> row.year, country |-> row.country,
                  value_1 |-> row.value, value_2 |-> match[k].value]]
             \o merge_on_year_country(Tail(df1), df2)

\* the floats 1.0, 0.0 and NaN as correlation coefficients (sign and square)
CorrOne == [sgn |-> 1, sq |-> RatInt(1)]
CorrZero == [sgn |-> 0, sq |-> RatInt(0)]
CorrNaN == [sgn |-> 0, sq |-> NaN]
PExact(value) == [kind |-> "exact", value |-> value]

\* stats.pearsonr(x, y): raises below two points, NaN for a constant input, +-1 with
\* p = 1.0 for two points, else r with the two-sided p-value on n - 2 degrees of freedom
pearsonr(x, y) ==
    LET n == Len(x)
        sxx == CrossSum(x, x)
        sxy == CrossSum(x, y)
        syy == CrossSum(y, y)
        r == RValue(sxy, sxx, syy)
    IN  IF n < 2 THEN [raised |-> TRUE]
        ELSE IF sxx = 0 \/ syy = 0
        THEN [raised |-> FALSE, corr |-> CorrNaN, p_value |-> PExact(NaN)]
        ELSE IF n = 2
        THEN [raised |-> FALSE,
              corr |-> [sgn |-> Sign(x[2] - x[1]) * Sign(y[2] - y[1]), sq |-> RatInt(1)],
              p_value |-> PExact(RatInt(1))]
        ELSE [raised |-> FALSE, corr |-> r,
              p_value |-> [kind |-> "two_sided_t", df |-> n - 2,
                           t_sq |-> FloatDiv(RatMul(r.sq, RatInt(n - 2)),
                                             RatSub(RatInt(1), r.sq))]]

\* the (corr, p_value) of two indicators; the countries argument is not used
calculate_indicator_correlation(df, indicator1, indicator2, countries, time_period) ==
    LET df1 == read_indicator_data(df, 1, indicator1, None, time_period)
        df2 == read_indicator_data(df, 2, indicator2, None, time_period)
        merged == merge_on_year_country(df1, df2)
        fit == pearsonr([k \in 1..Len(merged) |-> merged[k].value_1],
                        [k \in 1..Len(merged) |-> merged[k].value_2])
    IN  IF df1 = <<>> \/ df2 = <<>> \/ merged = <<>> \/ fit.raised
        THEN [corr |-> CorrZero, p_value |-> PExact(RatInt(1))]
        ELSE [corr |-> fit.corr, p_value |-> fit.p_value]

\* p_value < 0.05; false for NaN
p_value_below_5_percent(p) ==
    IF p.kind = "exact" THEN FloatLt(p.value, Rat(5, 100))
    ELSE p_below(p.t_sq, p.df, 50)

\* the pairs _interpret_correlation_matrix reports, in order; none stands for
\* "No significant correlations found"
interpret_correlation_matrix(indicators, correlation_matrix, significance_matrix) ==
    LET N == Len(indicators)
        pairs == [k \in 1..(N * N) |-> <<((k - 1) \div N) + 1, ((k - 1) % N) + 1>>]
        reported == SelectSeq(pairs, LAMBDA q :
                        q[1] < q[2] /\ p_value_below_5_percent(significance_matrix[q[1]][q[2]]))
    IN  [k \in 1..Len(reported) |->
            LET corr == correlation_matrix[reported[k][1]][reported[k][2]]
            IN  [indicator1 |-> indicators[reported[k][1]],
                 indicator2 |-> indicators[reported[k][2]],
                 strength |-> IF FloatLt(Rat(49, 100), corr.sq) THEN "strong"
                              ELSE IF FloatLt(Rat(25, 100), corr.sq) THEN "moderate"
                              ELSE "weak",
                 direction |-> IF corr.sgn > 0 THEN "positive" ELSE "negative"]]

\* the entry (i, j) of both matrices
matrix_entry(df, indicators, i, j, countries, time_period) ==
    IF i = j THEN [corr |-> CorrOne, p_value |-> PExact(RatInt(0))]
    ELSE calculate_indicator_correlation(df, indicators[i], indicators[j], countries, time_period)

\* the dict calculate_correlations returns
calculate_correlations(df, indicators, countries, time_period) ==
    LET N == Len(indicators)
        C == Len(countries)
        \* the keys of correlation_data: one read per indicator and country of the filter,
        \* or one per indicator
        correlation_data ==
            IF countries # <<>>
            THEN {<<indicators[q[1]], countries[q[2]]>> :
                     q \in {r \in (1..N) \X (1..C) :
                               read_indicator_data(df, (r[1] - 1) * C + r[2], indicators[r[1]],
                                                   Some(countries[r[2]]), time_period) # <<>>}}
            ELSE {indicators[i] :
                     i \in {r \in 1..N :
                               read_indicator_data(df, r, indicators[r], None,
                                                   time_period) # <<>>}}
        first_reads == IF countries # <<>> THEN N * C ELSE N
        \* the entries off the diagonal are computed row by row, two reads each
        reads_before(i, j) ==
            first_reads + 2 * ((i - 1) * (N - 1) + (IF j < i THEN j ELSE j - 1) - 1)
        entries == [i \in 1..N |-> [j \in 1..N |->
                       matrix_entry(after_reads(df, reads_before(i, j)), indicators, i, j,
                                    countries, time_period)]]
        correlation_matrix == [i \in 1..N |-> [j \in 1..N |-> entries[i][j].corr]]
        significance_matrix == [i \in 1..N |-> [j \in 1..N |-> entries[i][j].p_value]]
    IN  IF Cardinality(correlation_data) < 2
        THEN [status |-> "error", error |-> "Insufficient data for correlation analysis"]
        ELSE [status |-> "ok",
              indicators |-> indicators,
              countries |-> countries,
              time_period |-> time_period,
              correlation_matrix |-> correlation_matrix,
              significance_matrix |-> significance_matrix,
              interpretation |-> interpret_correlation_matrix(indicators, correlation_matrix,
                                                              significance_matrix),
              sample_size |-> Cardinality(correlation_data)]

(***************************************************************************)
(* multi_variable_regression                                               *)
(***************************************************************************)
\* the columns of pd.merge(left, right, on=['year', 'country']) where right has the
\* columns year, country, value: a value column on both sides becomes value_x / value_y
merge_columns(columns) ==
    IF \E c \in 1..Len(columns) : columns[c] = "value"
    THEN [c \in 1..Len(columns) |-> IF columns[c] = "value" THEN "value_x" ELSE columns[c]]
         \o <<"value_y">>
    ELSE columns \o <<"value">>

\* the rows of that inner join, in the order of left; vals follows the value columns
RECURSIVE merge_rows(_, _)
merge_rows(left, right) ==
    IF left = <<>> THEN <<>>
    ELSE LET row == Head(left)
             match == SelectSeq(right, LAMBDA r : r.year = row.year /\ r.country = row.country)
         IN  [m \in 1..Len(match) |->
                 [year |-> row.year, country |-> row.country,
                  vals |-> Append(row.vals, match[m].value)]]
             \o merge_rows(Tail(left), right)

\* for df in predictor_dfs: merged = pd.merge(merged, df, ...)
RECURSIVE merge_all(_, _)
merge_all(merged, predictor_dfs) ==
    IF predictor_dfs = <<>> THEN merged
    ELSE merge_all([columns |-> merge_columns(merged.columns),
                    rows |-> merge_rows(merged.rows, Head(predictor_dfs))],
                   Tail(predictor_dfs))

EmptyFrame == [columns |-> <<>>, rows |-> <<>>]

\* the frame _prepare_regression_data returns: columns after year and country, and rows
prepare_regression_data(df, target_indicator, predictor_indicators, countries, time_period) ==
    LET target_df == read_indicator_data(df, 1, target_indicator, None, time_period)
        all_dfs == [i \in 1..Len(predictor_indicators) |->
                       read_indicator_data(df, 1 + i, predictor_indicators[i], None,
                                           time_period)]
        predictor_dfs == SelectSeq(all_dfs, LAMBDA d : d # <<>>)
        merged == merge_all([columns |-> <<"value">>,
                             rows |-> [i \in 1..Len(target_df) |->
                                 [year |-> target_df[i].year, country |-> target_df[i].country,
                                  vals |-> <<target_df[i].value>>]]],
                            predictor_dfs)
        in_countries(r) == \E c \in 1..Len(countries) : countries[c] = r.country
    IN  IF target_df = <<>> \/ predictor_dfs = <<>> THEN EmptyFrame
        ELSE [columns |-> merged.columns,
              rows |-> IF countries # <<>> THEN SelectSeq(merged.rows, in_countries)
                       ELSE merged.rows]

\* regression_data[name] raises KeyError unless name is a column of the frame
has_column(frame, name) ==
    name \in {"year", "country"} \/ \E c \in 1..Len(frame.columns) : frame.columns[c] = name

\* the dict multi_variable_regression returns. The fit (lines 436-481) is reached only
\* when the target and every predictor name a column of the prepared frame; its
\* coefficients are kept as positions in model.coef_
multi_variable_regression(df, target_indicator, predictor_indicators, countries, time_period) ==
    LET regression_data == prepare_regression_data(df, target_indicator, predictor_indicators,
                                                   countries, time_period)
        n == Len(regression_data.rows)
        k == Len(predictor_indicators)
    IN  IF regression_data.rows = <<>>
        THEN [status |-> "error", error |-> "Insufficient data for regression analysis"]
        ELSE IF ~has_column(regression_data, target_indicator)
                \/ \E i \in 1..k : ~has_column(regression_data, predictor_indicators[i])
        THEN [status |-> "error", error |-> "Regression analysis failed"]
        ELSE [status |-> "ok",
              target_indicator |-> target_indicator,
              predictor_indicators |-> predictor_indicators,
              countries |-> countries,
              time_period |-> time_period,
              \* dict(zip(predictor_indicators, model.coef_)): the last position of a name
              feature_importance |->
                  [name \in {predictor_indicators[i] : i \in 1..k} |->
                      CHOOSE i \in 1..k : /\ predictor_indicators[i] = name
                                          /\ \A j \in 1..k : predictor_indicators[j] = name => j <= i],
              coefficient_significance |->
                  [name \in {predictor_indicators[i] : i \in 1..k} |->
                      CHOOSE i \in 1..k : /\ predictor_indicators[i] = name
                                          /\ \A j \in 1..k : predictor_indicators[j] = name => j <= i],
              sample_size |-> n,
              degrees_of_freedom |-> n - k - 1]

(***************************************************************************)
(* The service over one table: a series for PRT, a few rows for ESP        *)
(***************************************************************************)
OptSeriesValues == {None} \cup {Some(v) : v \in 0..MaxSeriesVal}
Confidence == {50, 95}      \* ForecastRequest.confidence_level, in percent
AnalyticsCountries == {"PRT", "ESP"}

TableRow(columns, year, country, le, doc) ==
    [year |-> year, country |-> country,
     vals |-> [c \in columns |-> IF c = "life_expectancy" THEN le ELSE doc]]

\* the PRT rows, latest year first: f[y] is <<>> (no row) or <<life_expectancy>>;
\* doctor_density mirrors life_expectancy
RECURSIVE PRTRows(_, _, _)
PRTRows(columns, f, y) ==
    IF y < FirstYear THEN <<>>
    ELSE (IF f[y] = <<>> THEN <<>>
          ELSE <<TableRow(columns, y, "PRT", f[y][1],
                          IF f[y][1] = None THEN Some(0)
                          ELSE Some(MaxSeriesVal - f[y][1][1]))>>)
         \o PRTRows(columns, f, y - 1)

ESPRowChoices(columns) ==
    {<<>>,
     <<TableRow(columns, FirstYear, "ESP", Some(1), None)>>,
     <<TableRow(columns, FirstYear, "ESP", None, Some(1))>>,
     <<TableRow(columns, FirstYear + 1, "ESP", Some(1), Some(0)),
       TableRow(columns, FirstYear, "ESP", Some(0), Some(1))>>,
     <<TableRow(columns, FirstYear + 1, "ESP", Some(1), Some(1)),
       TableRow(columns, FirstYear, "ESP", Some(1), Some(0))>>}

InitSeries ==
    /\ \E columns \in {{"life_expectancy"}, Indicators} :
       \E f \in [Years -> {<<>>} \cup {<<o>> : o \in OptSeriesValues}] :
       \E esp \in ESPRowChoices(columns) :
          merged_df = [columns |-> columns, rows |-> esp \o PRTRows(columns, f, LastYear),
                       raises |-> {}]
    /\ result = NoResult
    /\ country_data = <<>>
    /\ rankings = NoRankings
    /\ request = NoRequest
    /\ NoOtherState

TimePeriods == {None, <<FirstYear + 1, LastYear>>}

\* one call on a freshly constructed service; the service keeps nothing between calls
TrendAnalysis ==
    /\ result.op = "none"
    /\ \E indicator \in Indicators, country \in AnalyticsCountries, time_period \in TimePeriods :
         result' = [op |-> "perform_trend_analysis",
                    indicator |-> indicator, country |-> country, time_period |-> time_period,
                    out |-> perform_trend_analysis(merged_df, indicator, Some(country), time_period)]
    /\ UNCHANGED <<merged_df, country_data, rankings, request, analytics_cache, now, calls,
                 engine, api>>

Forecast ==
    /\ result.op = "none"
    /\ \E country \in AnalyticsCountries, forecast_years \in 0..MaxHorizon,
          confidence_level \in Confidence :
         result' = [op |-> "generate_forecast",
                    indicator |-> "life_expectancy", country |-> country,
                    forecast_years |-> forecast_years, confidence_level |-> confidence_level,
                    out |-> generate_forecast(merged_df, "life_expectancy", Some(country),
                                              forecast_years, confidence_level)]
    /\ UNCHANGED <<merged_df, country_data, rankings, request, analytics_cache, now, calls,
                 engine, api>>

SignificanceTest ==
    /\ result.op = "none"
    /\ \E country1 \in AnalyticsCountries, country2 \in AnalyticsCountries,
          time_period \in TimePeriods :
         result' = [op |-> "statistical_significance_test",
                    indicator |-> "life_expectancy",
                    country1 |-> country1, country2 |-> country2, time_period |-> time_period,
                    out |-> statistical_significance_test(merged_df, "life_expectancy",
                                Some(country1), Some(country2), time_period)]
    /\ UNCHANGED <<merged_df, country_data, rankings, request, analytics_cache, now, calls,
                 engine, api>>

IndicatorLists == {<<"life_expectancy", "doctor_density">>,
                   <<"doctor_density", "life_expectancy", "life_expectancy">>}
CountryLists == {None, <<"PRT">>, <<"ESP", "PRT">>}

Correlations ==
    /\ result.op = "none"
    /\ \E indicators \in IndicatorLists, countries \in CountryLists, time_period \in TimePeriods :
         result' = [op |-> "calculate_correlations",
                    indicators |-> indicators, countries |-> countries,
                    time_period |-> time_period,
                    out |-> calculate_correlations(merged_df, indicators, countries, time_period)]
    /\ UNCHANGED <<merged_df, country_data, rankings, request, analytics_cache, now, calls,
                 engine, api>>

PredictorLists == {<<"doctor_density">>, <<"life_expectancy", "doctor_density">>}

Regression ==
    /\ result.op = "none"
    /\ \E target_indicator \in Indicators, predictor_indicators \in PredictorLists,
          countries \in {None, <<"PRT">>}, time_period \in TimePeriods :
         result' = [op |-> "multi_variable_regression",
                    target_indicator |-> target_indicator,
                    predictor_indicators |-> predictor_indicators,
                    countries |-> countries, time_period |-> time_period,
                    regression_data |-> prepare_regression_data(merged_df, target_indicator,
                                            predictor_indicators, countries, time_period),
                    out |-> multi_variable_regression(merged_df, target_indicator,
                                predictor_indicators, countries, time_period)]
    /\ UNCHANGED <<merged_df, country_data, rankings, request, analytics_cache, now, calls,
                 engine, api>>

NextSeries == TrendAnalysis \/ Forecast \/ SignificanceTest \/ Correlations \/ Regression

SpecSeries == InitSeries /\ [][NextSeries]_vars

(***************************************************************************)
(* Properties of the analytics calls                                       *)
(***************************************************************************)
\* the (year, value) observations of an indicator for a country in the table, restricted
\* to an inclusive period when one is given
Observations(indicator, country, time_period) ==
    {[year |-> merged_df.rows[i].year, value |-> merged_df.rows[i].vals[indicator][1]] :
        i \in {j \in 1..Len(merged_df.rows) :
                  /\ indicator \in merged_df.columns
                  /\ merged_df.rows[j].country = country
                  /\ merged_df.rows[j].vals[indicator] # None
                  /\ \/ time_period = None
                     \/ /\ time_period[1] <= merged_df.rows[j].year
                        /\ merged_df.rows[j].year <= time_period[2]}}

CallObservations == Observations(result.indicator, result.country, result.time_period)
History == Observations(result.indicator, result.country, None)
AscendingYears(points) ==
    \A i, j \in 1..Len(points) : i < j => points[i].year <= points[j].year
PointSet(points) == {points[i] : i \in 1..Len(points)}
StrictlyIncreasing(obs) ==
    \A a, b \in obs : a.year < b.year => a.value < b.value
ConstantSeries(obs) == \A a, b \in obs : a.value = b.value
TrendCalled == result.op = "perform_trend_analysis"
ForecastCalled == result.op = "generate_forecast"
TestCalled == result.op = "statistical_significance_test"
Zero == RatInt(0)

\* IEEE equality of two matrix entries: NaN equals nothing, itself included
SameCorr(a, b) == a = b /\ ~IsNaN(a.sq)
SameP(a, b) ==
    /\ a = b
    /\ IF a.kind = "exact" THEN ~IsNaN(a.value) ELSE ~IsNaN(a.t_sq)
CorrelationsCalled == result.op = "calculate_correlations"

\* C4: whenever calculate_correlations returns a matrix, both matrices are N x N for the
\* N indicators, entry (i, j) equals entry (j, i) in both, every diagonal correlation is
\* 1.0 and every diagonal significance is 0.0.
C4_SymmetricMatrices ==
    (CorrelationsCalled /\ result.out.status = "ok") =>
        LET N == Len(result.indicators)
            corr == result.out.correlation_matrix
            sig == result.out.significance_matrix
        IN  /\ DOMAIN corr = 1..N /\ DOMAIN sig = 1..N
            /\ \A i \in 1..N :
                  /\ DOMAIN corr[i] = 1..N /\ DOMAIN sig[i] = 1..N
                  /\ SameCorr(corr[i][i], CorrOne)
                  /\ SameP(sig[i][i], PExact(Zero))
                  /\ \A j \in 1..N :
                        SameCorr(corr[i][j], corr[j][i]) /\ SameP(sig[i][j], sig[j][i])

\* C5: a successful trend result is "increasing" exactly when annual_change > 0,
\* "decreasing" exactly when it is < 0 and "stable" otherwise; a strictly increasing
\* series gives "increasing" with annual_change > 0, and a constant series gives "stable"
\* with trend_strength 0 and no failure.
C5_TrendDirection ==
    TrendCalled =>
        /\ result.out.status = "ok" =>
              /\ result.out.trend_direction = "increasing" <=> FloatLt(Zero, result.out.annual_change)
              /\ result.out.trend_direction = "decreasing" <=> FloatLt(result.out.annual_change, Zero)
              /\ result.out.trend_direction \in {"increasing", "decreasing", "stable"}
        /\ (Cardinality(CallObservations) >= 2 /\ StrictlyIncreasing(CallObservations)) =>
              /\ result.out.status = "ok"
              /\ result.out.trend_direction = "increasing"
              /\ FloatLt(Zero, result.out.annual_change)
        /\ (CallObservations # {} /\ ConstantSeries(CallObservations)) =>
              /\ result.out.status = "ok"
              /\ result.out.trend_direction = "stable"
              /\ result.out.trend_strength = [sgn |-> 0, sq |-> Zero]

C5_Witness ==
    /\ TrendCalled
    /\ Cardinality(CallObservations) = MaxYears
    /\ ConstantSeries(CallObservations)
    /\ result.out.status = "ok"
    /\ result.out.trend_direction = "stable"

\* C6: a trend call whose filtered series has fewer than 2 points returns an error result
\* and no trend fields; for an empty series the error is "No data available".
C6_ShortSeriesFails ==
    (TrendCalled /\ Cardinality(CallObservations) < 2) =>
        /\ result.out.status = "error"
        /\ "trend_direction" \notin DOMAIN result.out
        /\ CallObservations = {} =>
              result.out.error = "No data available for the specified parameters"

\* C7: the data_points of a successful trend result are exactly the observations of the
\* indicator and country in the inclusive period, in ascending year order; sample_size
\* is their number and time_period.start/end are the first and last year.
C7_DataPoints ==
    (TrendCalled /\ result.out.status = "ok") =>
        LET points == result.out.data_points
        IN  /\ PointSet(points) = CallObservations
            /\ Len(points) = Cardinality(CallObservations)
            /\ AscendingYears(points)
            /\ result.out.sample_size = Len(points)
            /\ result.out.time_period.start = points[1].year
            /\ result.out.time_period.end = points[Len(points)].year

C7_Witness ==
    /\ TrendCalled
    /\ result.time_period # None
    /\ result.out.status = "ok"
    /\ Len(result.out.data_points) >= 2
    /\ Observations(result.indicator, result.country, None) # CallObservations
    /\ \E i \in 1..Len(merged_df.rows) : merged_df.rows[i].country # result.country
    /\ \E i \in 1..Len(merged_df.rows) : merged_df.rows[i].vals[result.indicator] = None

\* C8: a forecast call whose history has fewer than 3 points returns the error
\* "Insufficient historical data for forecasting" and no forecast points, whatever the
\* horizon and the confidence level.
C8_ShortHistoryFails ==
    (ForecastCalled /\ Cardinality(History) < MinForecastPoints) =>
        /\ result.out.status = "error"
        /\ result.out.error = "Insufficient historical data for forecasting"
        /\ "forecast_data" \notin DOMAIN result.out

C8_Witness ==
    /\ ForecastCalled
    /\ Cardinality(History) = MinForecastPoints - 1
    /\ result.forecast_years = MaxHorizon
    /\ result.out.status = "error"

\* lower <= predicted_value <= upper for lower = center - margin, upper = center + margin
IntervalHolds(point) ==
    /\ point.confidence_interval.center = point.predicted_value
    /\ point.confidence_interval.margin.sign \in {"zero", "pos", "inf"}

\* C9: a successful forecast with horizon h and last observed year L has exactly h
\* points, for the years L+1 .. L+h in that order, each with lower <= predicted_value <=
\* upper, and historical_data repeats the observed points in ascending year order.
C9_ForecastPoints ==
    (ForecastCalled /\ result.out.status = "ok") =>
        LET points == result.out.forecast_data
            L == CHOOSE y \in {o.year : o \in History} : \A o \in History : o.year <= y
        IN  /\ Len(points) = result.forecast_years
            /\ \A i \in 1..Len(points) : points[i].year = L + i /\ IntervalHolds(points[i])
            /\ PointSet(result.out.historical_data) = History
            /\ Len(result.out.historical_data) = Cardinality(History)
            /\ AscendingYears(result.out.historical_data)

C9_Witness ==
    /\ ForecastCalled
    /\ result.out.status = "ok"
    /\ result.forecast_years = MaxHorizon
    /\ result.out.forecast_data[1].confidence_interval.margin.sign = "pos"

\* C10: a significance test returns the error "Insufficient data for statistical test"
\* and no test_results when the filtered series of either country is empty, and
\* test_results only when both are non-empty.
C10_EitherEmptyFails ==
    TestCalled =>
        LET series1 == Observations(result.indicator, result.country1, result.time_period)
            series2 == Observations(result.indicator, result.country2, result.time_period)
        IN  /\ (series1 = {} \/ series2 = {}) =>
                  /\ result.out.status = "error"
                  /\ result.out.error = "Insufficient data for statistical test"
                  /\ "test_results" \notin DOMAIN result.out
            /\ "test_results" \in DOMAIN result.out => (series1 # {} /\ series2 # {})

C10_Witness ==
    /\ TestCalled
    /\ Observations(result.indicator, result.country1, result.time_period) # {}
    /\ Observations(result.indicator, result.country2, result.time_period) = {}
    /\ result.out.status = "error"

\* C11: a successful significance test carries the significance label chosen by
\* p < 0.001, else p < 0.01, else p < 0.05, else p < 0.1, else not significant, and the
\* effect-size label chosen by |d| < 0.2, else < 0.5, else < 0.8, else large; the
\* effect-size word of the interpretation is effect_size_interpretation.
PValueBelow(p, per_mille) == p_below(p.t_sq, p.df, per_mille)
AbsBelow(d, tenths) == ~IsNaN(d.sq) /\ FloatLt(d.sq, Rat(tenths * tenths, 100))
C11_Labels ==
    (TestCalled /\ result.out.status = "ok") =>
        LET test == result.out.test_results
            p == test.p_value
            d == test.cohens_d
        IN  /\ test.significance_level =
                  (IF PValueBelow(p, 1) THEN "highly significant (p < 0.001)"
                   ELSE IF PValueBelow(p, 10) THEN "very significant (p < 0.01)"
                   ELSE IF PValueBelow(p, 50) THEN "significant (p < 0.05)"
                   ELSE IF PValueBelow(p, 100) THEN "marginally significant (p < 0.1)"
                   ELSE "not significant (p >= 0.1)")
            /\ test.effect_size_interpretation =
                  (IF AbsBelow(d, 2) THEN "negligible"
                   ELSE IF AbsBelow(d, 5) THEN "small"
                   ELSE IF AbsBelow(d, 8) THEN "medium"
                   ELSE "large")
            /\ result.out.interpretation.effect_size = test.effect_size_interpretation

C11_Witness ==
    /\ TestCalled
    /\ result.out.status = "ok"
    /\ result.out.test_results.significance_level = "not significant (p >= 0.1)"
    /\ result.out.test_results.effect_size_interpretation = "small"
    /\ ~IsNaN(result.out.test_results.cohens_d.sq)

\* a statistic that is neither NaN nor infinite
Defined(x) == ~IsNaN(x.sq) /\ IsFinite(x.sq)

RegressionCalled == result.op = "multi_variable_regression"
PredictorNames == {result.predictor_indicators[i] : i \in 1..Len(result.predictor_indicators)}
RegressionNames == {result.target_indicator} \cup PredictorNames
NPredictors == Len(result.predictor_indicators)

\* a row of the table has a value for every named indicator
CompleteRow(row, names) ==
    \A name \in names : name \in merged_df.columns /\ row.vals[name] # None

\* the rows of the inner join on (country, year) of the target and all predictors, without
\* missing values, restricted to the country filter and the period
JoinedRows ==
    {j \in 1..Len(merged_df.rows) :
        /\ CompleteRow(merged_df.rows[j], RegressionNames)
        /\ \/ result.countries = None
           \/ \E c \in 1..Len(result.countries) : result.countries[c] = merged_df.rows[j].country
        /\ \/ result.time_period = None
           \/ /\ result.time_period[1] <= merged_df.rows[j].year
              /\ merged_df.rows[j].year <= result.time_period[2]}

FrameColumns == {result.regression_data.columns[c] : c \in 1..Len(result.regression_data.columns)}

\* C12: when the target and every predictor have values on the same (country, year) rows
\* and there are more rows than predictors + 1, the regression returns a non-error result
\* that echoes target and predictors, with one feature_importance and one
\* coefficient_significance entry per predictor, and the joined frame has a column named
\* after the target and one per predictor.
C12_RegressionSucceeds ==
    (/\ RegressionCalled
     /\ \A j \in 1..Len(merged_df.rows) : CompleteRow(merged_df.rows[j], RegressionNames)
     /\ Cardinality(JoinedRows) > NPredictors + 1) =>
        /\ RegressionNames \subseteq FrameColumns
        /\ result.out.status = "ok"
        /\ result.out.target_indicator = result.target_indicator
        /\ result.out.predictor_indicators = result.predictor_indicators
        /\ DOMAIN result.out.feature_importance = PredictorNames
        /\ DOMAIN result.out.coefficient_significance = PredictorNames

\* C13: with k predictors and n <= k + 1 joined rows the regression fails with the
\* insufficient-data error and returns no model_performance.
C13_SmallSampleFails ==
    (RegressionCalled /\ Cardinality(JoinedRows) <= NPredictors + 1) =>
        /\ result.out.status = "error"
        /\ result.out.error = "Insufficient data for regression analysis"
        /\ "model_performance" \notin DOMAIN result.out

\* the determinant of the Gram matrix of the design columns 1, x (one predictor) or
\* 1, x1, x2 (two predictors) over the joined rows
ColumnOf(name) ==
    LET rows == SelectSeq(merged_df.rows, LAMBDA r :
                    \E j \in JoinedRows : merged_df.rows[j] = r)
    IN  [i \in 1..Len(rows) |-> rows[i].vals[name][1]]
Dot(a, b) == SeqSum([i \in 1..Len(a) |-> a[i] * b[i]])
GramDeterminant ==
    LET x1 == ColumnOf(result.predictor_indicators[1])
        x2 == ColumnOf(result.predictor_indicators[NPredictors])
        n == Len(x1)
    IN  IF NPredictors = 1 THEN n * Dot(x1, x1) - SeqSum(x1) * SeqSum(x1)
        ELSE   n * (Dot(x1, x1) * Dot(x2, x2) - Dot(x1, x2) * Dot(x1, x2))
             - SeqSum(x1) * (SeqSum(x1) * Dot(x2, x2) - Dot(x1, x2) * SeqSum(x2))
             + SeqSum(x2) * (SeqSum(x1) * Dot(x1, x2) - Dot(x1, x1) * SeqSum(x2))

\* C14: with a singular design matrix and more than k + 1 rows the regression still
\* returns a non-error fit, one coefficient_significance entry per predictor.
C14_SingularStillFits ==
    (/\ RegressionCalled
     /\ Cardinality(JoinedRows) > NPredictors + 1
     /\ GramDeterminant = 0) =>
        /\ result.out.status = "ok"
        /\ DOMAIN result.out.coefficient_significance = PredictorNames

(***************************************************************************)
(* Properties of calculate_correlations with degenerate pairs and filters  *)
(***************************************************************************)
InCountryFilter(country) ==
    \/ result.countries = None
    \/ \E c \in 1..Len(result.countries) : result.countries[c] = country

\* the rows of the join on (country, year) of the series of two indicators, within the
\* period and the country filter of the call
PairRows(indicator1, indicator2) ==
    {j \in 1..Len(merged_df.rows) :
        /\ CompleteRow(merged_df.rows[j], {indicator1, indicator2})
        /\ InCountryFilter(merged_df.rows[j].country)
        /\ \/ result.time_period = None
           \/ /\ result.time_period[1] <= merged_df.rows[j].year
              /\ merged_df.rows[j].year <= result.time_period[2]}

\* C15: a pair (i, j), i # j, whose join has fewer than 2 rows (no overlap or an empty
\* series included) has correlation 0.0 and p-value 1.0, and calculate_correlations
\* returns the matrix, not an error.
C15_DegeneratePair ==
    CorrelationsCalled =>
        \A i, j \in 1..Len(result.indicators) :
            (i # j /\ Cardinality(PairRows(result.indicators[i], result.indicators[j])) < 2) =>
                /\ result.out.status = "ok"
                /\ result.out.correlation_matrix[i][j] = CorrZero
                /\ result.out.significance_matrix[i][j] = PExact(RatInt(1))

\* the table without the rows of the countries outside the filter of the call
FilteredTable ==
    [merged_df EXCEPT !.rows = SelectSeq(merged_df.rows, LAMBDA r : InCountryFilter(r.country))]

\* C16: with a country filter the matrices depend only on the observations of the
\* countries in the filter: the table without the other countries' rows gives the same
\* result.
C16_CountryFilter ==
    (CorrelationsCalled /\ result.countries # None) =>
        result.out = calculate_correlations(FilteredTable, result.indicators,
                                            result.countries, result.time_period)

\* C17: two indicators and a country list of exactly one country, which has data for
\* both indicators, give an error whose message contains "Insufficient data".
C17_OneCountryFails ==
    (/\ CorrelationsCalled
     /\ Len(result.indicators) = 2
     /\ Len(result.countries) = 1
     /\ \A i \in 1..2 :
           Observations(result.indicators[i], result.countries[1], result.time_period) # {}) =>
        /\ result.out.status = "error"
        /\ result.out.error = "Insufficient data for correlation analysis"

(***************************************************************************)
(* BenchmarkService.detect_anomalies and compare_countries on a data       *)
(* processor with history: country_data holds the current values of the    *)
(* available countries, merged_df the yearly history of the indicators     *)
(***************************************************************************)
MaxCurrent == 3             \* current values are 0..MaxCurrent
DefaultTimeframe == 5       \* AnomalyDetectionRequest.timeframe
Sensitivities == {10, 20, 30}   \* AnomalyDetectionRequest.sensitivity (1.0..3.0), in tenths

CurrentValues == {None} \cup {Some(v) : v \in 0..MaxCurrent}
CurrentData(le) == [life_expectancy |-> le, doctor_density |-> Some(0)]

\* get_available_countries(): the countries of country_data, in order
available_countries == [i \in 1..Len(country_data) |-> country_data[i].country]

InitAnomaly ==
    /\ \E f \in [Years -> {<<>>} \cup {<<Some(v)>> : v \in 0..MaxSeriesVal}] :
       \E n \in 1..2 :
          merged_df = [columns |-> Indicators, raises |-> {},
                       rows |-> (IF n = 2
                                 THEN <<TableRow(Indicators, FirstYear, "ESP", Some(1), None)>>
                                 ELSE <<>>) \o PRTRows(Indicators, f, LastYear)]
    /\ \E le \in CurrentValues :
       \E n \in 1..2 :
          country_data = CountryData([i \in 1..n |-> IF i = 1 THEN CurrentData(le)
                                                     ELSE CurrentData(Some(1))])
    /\ result = NoResult
    /\ rankings = NoRankings
    /\ request = NoRequest
    /\ NoOtherState

DetectAnomalies ==
    /\ request.op = "none"
    /\ \E country \in {None, Some("PRT"), Some("ESP")},
          metric \in {None, Some("life_expectancy"), Some("doctor_density")},
          sensitivity \in Sensitivities :
        LET req == [op |-> "detect_anomalies", country |-> country, metric |-> metric,
                    timeframe |-> DefaultTimeframe, sensitivity |-> sensitivity]
        IN  /\ request' = req
            /\ result' = [op |-> "detect_anomalies"] @@ detect_anomalies(req, available_countries)
    /\ UNCHANGED <<country_data, merged_df, rankings, analytics_cache, now, calls,
                 engine, api>>

NextAnomaly == DetectAnomalies \/ CompareCountries

SpecAnomaly == InitAnomaly /\ [][NextAnomaly]_vars

(***************************************************************************)
(* Claims on the anomaly detector                                          *)
(***************************************************************************)
DetectCalled == request.op = "detect_anomalies"
CompareCalled == request.op = "compare_countries"

\* the history of a country and metric recorded in the table, latest year first
HistoricalRows(country, metric) ==
    SelectSeq(merged_df.rows,
              LAMBDA r : /\ metric \in merged_df.columns
                         /\ r.country = country
                         /\ r.vals[metric] # None)
HistoricalPoints(country, metric) ==
    LET rows == HistoricalRows(country, metric)
    IN  [i \in 1..Len(rows) |-> rows[i].vals[metric][1]]

\* the current value of a country and metric, None when there is none
CurrentValue(country, metric) ==
    IF \E i \in 1..Len(country_data) : country_data[i].country = country
    THEN get_metric_value(
           country_data[CHOOSE i \in 1..Len(country_data) :
                            country_data[i].country = country].data, metric)
    ELSE None

\* the (country, metric) pairs in the scope of the call
ScopeCountries ==
    IF DetectCalled
    THEN (IF request.country # None THEN {request.country[1]}
          ELSE {country_data[i].country : i \in 1..Len(country_data)})
    ELSE {country_data[i].country : i \in 1..Len(country_data)}
ScopeMetrics ==
    IF DetectCalled
    THEN (IF request.metric # None THEN {request.metric[1]} ELSE MetricTypeSet)
    ELSE (IF request.metrics = <<>> THEN MetricTypeSet
          ELSE {request.metrics[i] : i \in 1..Len(request.metrics)})
Scope == ScopeCountries \X ScopeMetrics

HasBaseline(country, metric) ==
    /\ Len(HistoricalPoints(country, metric)) >= 3
    /\ ~FloatEq(variance(HistoricalPoints(country, metric)), RatInt(0))

\* z^2 of the current value against the history
ZSq(country, metric) ==
    z_score_sq(CurrentValue(country, metric)[1], HistoricalPoints(country, metric))

\* |current - mean| / std > sensitivity, sensitivity in tenths
Outlier(country, metric, sensitivity) ==
    /\ CurrentValue(country, metric) # None
    /\ HasBaseline(country, metric)
    /\ FloatLt(Rat(sensitivity * sensitivity, 100), ZSq(country, metric))

ReturnedAlerts ==
    IF DetectCalled THEN {result.anomalies[i] : i \in 1..Len(result.anomalies)}
    ELSE {rankings.anomalies[i] : i \in 1..Len(rankings.anomalies)}

AlertsOf(country, metric) ==
    {a \in ReturnedAlerts : a.country = country /\ a.metric = metric}

\* the severity band of z: low for (1.5, 2], medium for (2, 3], high above 3
InBand(severity, z_sq) ==
    /\ FloatLt(RatInt(9), z_sq) => severity = "high"
    /\ (FloatLt(RatInt(4), z_sq) /\ FloatLe(z_sq, RatInt(9))) => severity = "medium"
    /\ (FloatLt(Rat(9, 4), z_sq) /\ FloatLe(z_sq, RatInt(4))) => severity = "low"

\* C18: after detect_anomalies, every pair in scope with at least 3 historical points,
\* non-zero standard deviation and |current - mean| / std above the sensitivity has an
\* alert in the response, of the severity of its z band and confidence min(z/3, 1.0)
C18_OutlierFlagged ==
    DetectCalled =>
        \A p \in Scope :
            Outlier(p[1], p[2], request.sensitivity) =>
                \E a \in AlertsOf(p[1], p[2]) :
                    /\ InBand(a.severity, ZSq(p[1], p[2]))
                    /\ a.confidence_sq = confidence_sq(ZSq(p[1], p[2]))

\* C19: a pair with fewer than 3 historical points or a history of zero variance has no
\* alert, the call does not fail, and the scan visits every pair in scope
C19_SkipsSilently ==
    /\ DetectCalled =>
          /\ result.status = "ok"
          /\ {<<result.scanned[i].country, result.scanned[i].metric>> :
                 i \in 1..Len(result.scanned)} = Scope
          /\ \A p \in Scope : ~HasBaseline(p[1], p[2]) => AlertsOf(p[1], p[2]) = {}
    /\ CompareCalled =>
          /\ rankings.status = "ok"
          /\ \A p \in Scope : ~HasBaseline(p[1], p[2]) => AlertsOf(p[1], p[2]) = {}

\* a scan of both countries where the PRT history is three equal values, its current
\* value differs from them, and ESP, scanned after PRT, has a single historical point
C19_Witness ==
    /\ DetectCalled
    /\ request.country = None
    /\ Len(country_data) = 2
    /\ Len(HistoricalPoints("PRT", "life_expectancy")) = 3
    /\ FloatEq(variance(HistoricalPoints("PRT", "life_expectancy")), RatInt(0))
    /\ CurrentValue("PRT", "life_expectancy") # None
    /\ CurrentValue("PRT", "life_expectancy")[1] # HistoricalPoints("PRT", "life_expectancy")[1]
    /\ Len(HistoricalPoints("ESP", "life_expectancy")) = 1
    /\ \E i \in 1..Len(result.scanned) : result.scanned[i].country = "ESP"

(***************************************************************************)
(* BenchmarkService.find_peer_groups                                       *)
(***************************************************************************)
MaxPeerCountries == 4       \* available countries of the data processor
MaxPeerVal == 3             \* life_expectancy and government_spending are 0..MaxPeerVal

\* data_processor.get_country_data(country, 2022) on country_data: the data dict of the
\* country
get_country_data(cd, country) ==
    cd[CHOOSE i \in 1..Len(cd) : cd[i].country = country].data

\* data.get(key, 0)
data_get(data, key) == IF key \in DOMAIN data THEN data[key][1] ELSE 0

Max(a, b) == IF a >= b THEN a ELSE b

\* 1 - abs(v1 - v2) / max(v1, v2)
metric_similarity(v1, v2) == RatSub(RatInt(1), Rat(Abs(v1 - v2), Max(v1, v2)))

\* _calculate_country_similarity: the mean of the similarities of life_expectancy and
\* government_spending, each taken when both values are > 0; 0.0 when there is none
calculate_country_similarity(data1, data2, criteria) ==
    LET le1 == data_get(data1, "life_expectancy")
        le2 == data_get(data2, "life_expectancy")
        sp1 == data_get(data1, "government_spending")
        sp2 == data_get(data2, "government_spending")
        le_sim == IF le1 > 0 /\ le2 > 0 THEN <<metric_similarity(le1, le2)>> ELSE <<>>
        sp_sim == IF sp1 > 0 /\ sp2 > 0 THEN <<metric_similarity(sp1, sp2)>> ELSE <<>>
        similarities == le_sim \o sp_sim
    IN  IF similarities = <<>> THEN RatInt(0)
        ELSE RatDiv(RatSeqSum(similarities), RatInt(Len(similarities)))

\* _calculate_similarity_scores: the (country, score) items of the scores dict, in the
\* order of all_countries; empty when the target has no data
calculate_similarity_scores(cd, target_country, all_countries, criteria) ==
    LET target_data == get_country_data(cd, target_country)
        scored == SelectSeq(all_countries,
                            LAMBDA c : c # target_country /\ DOMAIN get_country_data(cd, c) # {})
    IN  IF DOMAIN target_data = {} THEN <<>>
        ELSE [k \in 1..Len(scored) |->
                [country |-> scored[k],
                 score |-> calculate_country_similarity(target_data,
                               get_country_data(cd, scored[k]), criteria)]]

RECURSIVE InsertPeerLast(_, _)
InsertPeerLast(s, x) ==
    IF s = <<>> THEN <<x>>
    ELSE IF RatLe(x.score, Head(s).score) THEN <<Head(s)>> \o InsertPeerLast(Tail(s), x)
    ELSE <<x>> \o s

RECURSIVE InsertPeerAscending(_, _)
InsertPeerAscending(s, x) ==
    IF s = <<>> THEN <<x>>
    ELSE IF RatLe(Head(s).score, x.score) THEN <<Head(s)>> \o InsertPeerAscending(Tail(s), x)
    ELSE <<x>> \o s

\* sorted(qualified_peers.items(), key=lambda x: x[1]) without reverse=True
RECURSIVE sorted_peers_bad(_)
sorted_peers_bad(s) ==
    IF s = <<>> THEN <<>>
    ELSE InsertPeerAscending(sorted_peers_bad(SubSeq(s, 1, Len(s) - 1)), s[Len(s)])

\* sorted(qualified_peers.items(), key=lambda x: x[1], reverse=True): stable
RECURSIVE sorted_peers(_)
sorted_peers(s) ==
    IF s = <<>> THEN <<>>
    ELSE InsertPeerLast(sorted_peers(SubSeq(s, 1, Len(s) - 1)), s[Len(s)])

\* _calculate_group_averages: per metric, the mean of the values of the group's data
\* dicts that have one
calculate_group_averages(group_data) ==
    LET values(metric) ==
            LET have == SelectSeq(group_data,
                                  LAMBDA data : metric \in DOMAIN data /\ data[metric] # None)
            IN  [i \in 1..Len(have) |-> RatInt(have[i][metric][1])]
        present == {metric \in DataKeys : values(metric) # <<>>}
    IN  [metric \in present |->
            RatDiv(RatSeqSum(values(metric)), RatInt(Len(values(metric))))]

\* _create_peer_group
create_peer_group(cd, name, countries, criteria) ==
    LET all_data == [i \in 1..Len(countries) |-> get_country_data(cd, countries[i])]
        group_data == SelectSeq(all_data, LAMBDA data : DOMAIN data # {})
    IN  [name |-> name,
         countries |-> countries,
         criteria |-> criteria,
         average |-> IF group_data # <<>> THEN calculate_group_averages(group_data) ELSE <<>>,
         size |-> Len(countries)]

\* _create_criteria_groups: "Simplified"; returns []
create_criteria_groups(target_country, peers, criteria) == <<>>

\* the main group is created whether or not a peer was selected
peer_groups_bad(cd, country, top_peers, criteria) ==
    <<create_peer_group(cd, <<"Similar to", country>>, <<country>> \o top_peers, criteria)>>
      \o create_criteria_groups(country, top_peers, criteria)

\* peer_groups = []; if top_peers: the main group and the criteria groups
peer_groups_of(cd, country, top_peers, criteria) ==
    IF top_peers # <<>>
    THEN <<create_peer_group(cd, <<"Similar to", country>>, <<country>> \o top_peers, criteria)>>
           \o create_criteria_groups(country, top_peers, criteria)
    ELSE <<>>

\* find_peer_groups(request); similarity_threshold is in percent
find_peer_groups(cd, req) ==
    LET all_countries == [i \in 1..Len(cd) |-> cd[i].country]
        similarity_scores ==
            calculate_similarity_scores(cd, req.country, all_countries, req.criteria)
        qualified_peers ==
            SelectSeq(similarity_scores,
                      LAMBDA x : /\ RatLe(Rat(req.similarity_threshold, 100), x.score)
                                 /\ x.country # req.country)
        sorted == sorted_peers(qualified_peers)
        top == SubSeq(sorted, 1, IF Len(sorted) < req.max_peers THEN Len(sorted)
                                 ELSE req.max_peers)
        top_peers == [i \in 1..Len(top) |-> top[i].country]
        peer_groups == peer_groups_of(cd, req.country, top_peers, req.criteria)
    IN  [status |-> "ok",
         target_country |-> req.country,
         peer_groups |-> peer_groups,
         best_match |-> IF peer_groups # <<>> THEN Some(peer_groups[1]) ELSE None,
         similarity_scores |-> similarity_scores]

\* the data dicts of the available countries: none, or both values recorded
PeerData(v) == [life_expectancy |-> Some(v), government_spending |-> Some(MaxPeerVal - v)]
PeerDataDicts == {<<>>} \cup {PeerData(v) : v \in 0..MaxPeerVal}
DefaultCriteria == <<"gdp_per_capita", "population">>    \* PeerGroupRequest.criteria
MaxPeersChoices == {2, 3}                   \* PeerGroupRequest.max_peers (2..10)
SimilarityThresholds == {0, 50, 70, 100}    \* PeerGroupRequest.similarity_threshold, percent

InitPeer ==
    /\ \E n \in 2..MaxPeerCountries :
         \E f \in [1..n -> PeerDataDicts] : country_data = CountryData(f)
    /\ rankings = NoRankings
    /\ request = NoRequest
    /\ merged_df = EmptyTable
    /\ result = NoResult
    /\ NoOtherState

FindPeerGroups ==
    /\ request.op = "none"
    /\ \E i \in 1..Len(country_data), max_peers \in MaxPeersChoices,
          similarity_threshold \in SimilarityThresholds :
        LET req == [op |-> "find_peer_groups", country |-> country_data[i].country,
                    criteria |-> DefaultCriteria, max_peers |-> max_peers,
                    similarity_threshold |-> similarity_threshold]
        IN  /\ request' = req
            /\ result' = [op |-> "find_peer_groups"] @@ find_peer_groups(country_data, req)
    /\ UNCHANGED <<country_data, merged_df, rankings, analytics_cache, now, calls,
                 engine, api>>

NextPeer == FindPeerGroups

SpecPeer == InitPeer /\ [][NextPeer]_vars

(***************************************************************************)
(* Claims on the peer grouper                                              *)
(***************************************************************************)
PeersCalled == request.op = "find_peer_groups"

\* the selected peers: the members of the first group after the target, none when
\* there is no group
SelectedPeers ==
    IF result.peer_groups = <<>> THEN <<>> ELSE Tail(result.peer_groups[1].countries)

\* the similarity of a candidate to the target, from the data
Similarity(country) ==
    calculate_country_similarity(get_country_data(country_data, request.country),
                                 get_country_data(country_data, country), request.criteria)

\* the candidates: the other countries with data, when the target has data
Candidates ==
    IF DOMAIN get_country_data(country_data, request.country) = {} THEN {}
    ELSE {country_data[i].country : i \in {j \in 1..Len(country_data) :
              /\ country_data[j].country # request.country
              /\ DOMAIN country_data[j].data # {}}}

Qualifying ==
    {c \in Candidates : RatLe(Rat(request.similarity_threshold, 100), Similarity(c))}

\* C21: the selected peers exclude the target, are qualifying candidates, are in
\* descending order of similarity, are at most max_peers, and no unselected qualifying
\* candidate is strictly more similar than a selected one
C21_PeerSelection ==
    PeersCalled =>
        LET peers == SelectedPeers
            selected == {peers[i] : i \in 1..Len(peers)}
        IN  /\ request.country \notin selected
            /\ selected \subseteq Qualifying
            /\ \A i, j \in 1..Len(peers) :
                   i < j => RatLe(Similarity(peers[j]), Similarity(peers[i]))
            /\ Len(peers) <= request.max_peers
            /\ \A c \in Qualifying \ selected : \A d \in selected :
                   ~RatLt(Similarity(d), Similarity(c))

\* more qualifying candidates than max_peers under a positive threshold: max_peers of
\* them are selected, and one less similar than a selected one is left out
C21_Witness ==
    /\ PeersCalled
    /\ request.similarity_threshold > 0
    /\ Cardinality(Qualifying) > request.max_peers
    /\ Len(SelectedPeers) = request.max_peers
    /\ \E c \in Qualifying : \E i \in 1..Len(SelectedPeers) :
           /\ \A j \in 1..Len(SelectedPeers) : SelectedPeers[j] # c
           /\ RatLt(Similarity(c), Similarity(SelectedPeers[i]))

\* the first group is the target followed by its selected peers, and best_match is it
MainGroupFirst ==
    /\ result.peer_groups # <<>>
    /\ result.peer_groups[1].countries # <<>>
    /\ result.peer_groups[1].countries[1] = request.country
    /\ {result.peer_groups[1].countries[i] : i \in 2..Len(result.peer_groups[1].countries)}
         \subseteq Qualifying
    /\ result.peer_groups[1].size = Len(result.peer_groups[1].countries)
    /\ result.best_match = Some(result.peer_groups[1])

\* C22 as stated: every response has the group of the target and its peers first, also
\* when no candidate reaches the threshold
C22_AlwaysAGroup == PeersCalled => MainGroupFirst

\* C22: when a candidate reaches the threshold, the first group is the target with its
\* selected peers (size = 1 + number of peers) and best_match is that group; when none
\* does, peer_groups is empty and best_match is None
C22_GroupIffPeers ==
    PeersCalled =>
        IF Qualifying # {}
        THEN /\ MainGroupFirst
             /\ result.peer_groups[1].size =
                    1 + (IF Cardinality(Qualifying) < request.max_peers
                         THEN Cardinality(Qualifying) ELSE request.max_peers)
        ELSE result.peer_groups = <<>> /\ result.best_match = None

\* a target with data and candidates, none of which reaches the threshold
C22_Witness ==
    /\ PeersCalled
    /\ Candidates # {}
    /\ Qualifying = {}
    /\ result.peer_groups = <<>>

(***************************************************************************)
(* AdvancedAnalyticsService on a data source whose reads can raise         *)
(***************************************************************************)
MaxFaultRead == 4       \* the reads of merged_df that can raise are among the first ones

\* one read of the call raises, or all of the first MaxFaultRead do
FaultSchedules == {{k} : k \in 1..MaxFaultRead} \cup {1..MaxFaultRead}

InitFault ==
    /\ \E f \in [Years -> {<<Some(v)>> : v \in 0..MaxSeriesVal}] :
       \E esp \in ESPRowChoices(Indicators) :
       \E raises \in FaultSchedules :
          merged_df = [columns |-> Indicators,
                       rows |-> esp \o PRTRows(Indicators, f, LastYear),
                       raises |-> raises]
    /\ result = NoResult
    /\ country_data = <<>>
    /\ rankings = NoRankings
    /\ request = NoRequest
    /\ NoOtherState

SpecFault == InitFault /\ [][NextSeries]_vars

(***************************************************************************)
(* Claims on failing reads                                                 *)
(***************************************************************************)
RegressionDone == result.op = "multi_variable_regression"
CorrelationsDone == result.op = "calculate_correlations"

\* the number of calls of _get_indicator_data the call of the service has made
ReadsMade ==
    CASE result.op = "perform_trend_analysis" -> 1
      [] result.op = "generate_forecast" -> 1
      [] result.op = "statistical_significance_test" -> 2
      [] CorrelationsDone ->
            LET N == Len(result.indicators)
                first == IF result.countries # <<>> THEN N * Len(result.countries) ELSE N
            IN  IF result.out.status = "ok" THEN first + 2 * N * (N - 1) ELSE first
      [] RegressionDone ->
            IF 1 \in merged_df.raises
               \/ get_indicator_data(merged_df, result.target_indicator, None,
                                     result.time_period) = <<>>
            THEN 1
            ELSE 1 + Len(result.predictor_indicators)
      [] OTHER -> 0

\* a read of the table raised during the call
ReadRaised == \E k \in merged_df.raises : k <= ReadsMade

FailureName ==
    CASE result.op = "perform_trend_analysis" -> "Trend analysis failed"
      [] result.op = "generate_forecast" -> "Forecast generation failed"
      [] result.op = "statistical_significance_test" -> "Statistical test failed"
      [] CorrelationsDone -> "Correlation analysis failed"
      [] RegressionDone -> "Regression analysis failed"
      [] OTHER -> ""

\* C23: each of the five calls returns a dict, and when a read of the data raised during
\* the call the dict is an error that names the failed operation and carries no analysis
\* field
C23_UniformErrors ==
    result.op # "none" =>
        /\ result.out.status \in {"ok", "error"}
        /\ ReadRaised =>
              /\ result.out.status = "error"
              /\ result.out.error = FailureName
              /\ DOMAIN result.out = {"status", "error"}

\* C24: when a read of the data raised during calculate_correlations,
\* perform_trend_analysis or multi_variable_regression, the call returns a failure
C24_NoSilentDefaults ==
    (/\ result.op \in {"calculate_correlations", "perform_trend_analysis",
                       "multi_variable_regression"}
     /\ ReadRaised)
        => result.out.status = "error"

(***************************************************************************)
(* Sequences of calls on one AdvancedAnalyticsService and BenchmarkService *)
(***************************************************************************)
MaxCalls == 3           \* calls in one behaviour

\* dropna applied to the table of the data processor itself
table_after_reads_bad(df) ==
    [df EXCEPT !.rows = SelectSeq(@, LAMBDA r : \A c \in df.columns : r.vals[c] # None)]

\* df = self.data_processor.merged_df.copy(): the filters of _get_indicator_data work on
\* a copy, so the table is what it was
table_after_reads(df) == df

\* "generated_at": datetime.utcnow().isoformat() in the dict of a successful call
with_generated_at(out, at) ==
    IF out.status = "ok" THEN out @@ [generated_at |-> at] ELSE out

\* the calls of a behaviour: the operation with its arguments
ServiceCalls ==
    {[op |-> "perform_trend_analysis", args |-> <<"life_expectancy", "PRT">>],
     [op |-> "perform_trend_analysis", args |-> <<"life_expectancy", "ESP">>],
     [op |-> "calculate_correlations", args |-> <<"life_expectancy", "doctor_density">>],
     [op |-> "generate_forecast", args |-> <<"life_expectancy", "PRT">>],
     [op |-> "statistical_significance_test", args |-> <<"life_expectancy", "PRT", "ESP">>],
     [op |-> "multi_variable_regression", args |-> <<"life_expectancy", "doctor_density">>],
     [op |-> "detect_anomalies", args |-> <<>>]}

\* what the call returns at the time at; perform_trend_analysis puts no timestamp into
\* its dict, AnomalyDetectionResponse.generated_at defaults to datetime.now
service_call(c, df, cd, at) ==
    CASE c.op = "perform_trend_analysis" ->
            perform_trend_analysis(df, c.args[1], Some(c.args[2]), None)
      [] c.op = "calculate_correlations" ->
            with_generated_at(calculate_correlations(df, c.args, None, None), at)
      [] c.op = "generate_forecast" ->
            with_generated_at(generate_forecast(df, c.args[1], Some(c.args[2]), 1, 95), at)
      [] c.op = "statistical_significance_test" ->
            with_generated_at(statistical_significance_test(df, c.args[1], Some(c.args[2]),
                                                            Some(c.args[3]), None), at)
      [] c.op = "multi_variable_regression" ->
            with_generated_at(multi_variable_regression(df, c.args[1], <<c.args[2]>>,
                                                        None, None), at)
      [] c.op = "detect_anomalies" ->
            with_generated_at(
                detect_anomalies([op |-> "detect_anomalies", country |-> None,
                                  metric |-> None, timeframe |-> DefaultTimeframe,
                                  sensitivity |-> 20],
                                 [i \in 1..Len(cd) |-> cd[i].country]), at)

InitCalls ==
    /\ \E esp \in ESPRowChoices(Indicators) :
          merged_df = [columns |-> Indicators, raises |-> {},
                       rows |-> esp \o PRTRows(Indicators,
                                    [y \in Years |-> <<Some((y - FirstYear) % (MaxSeriesVal + 1))>>],
                                    LastYear)]
    /\ country_data = CountryData([i \in 1..2 |-> CurrentData(Some(1))])
    /\ rankings = NoRankings
    /\ request = NoRequest
    /\ result = NoResult
    /\ NoOtherState

\* one call; time may pass before it
Call ==
    /\ Len(calls) < MaxCalls
    /\ \E c \in ServiceCalls, at \in {now, now + 1} :
        LET out == service_call(c, merged_df, country_data, at)
        IN  /\ result' = [op |-> c.op, args |-> c.args, out |-> out]
            /\ calls' = Append(calls, [op |-> c.op, args |-> c.args, at |-> at, out |-> out])
            /\ now' = at
    /\ merged_df' = table_after_reads(merged_df)
    /\ UNCHANGED <<analytics_cache, country_data, rankings, request, engine, api>>

NextCalls == Call

SpecCalls == InitCalls /\ [][NextCalls]_vars

(***************************************************************************)
(* Claims on sequences of calls                                            *)
(***************************************************************************)
SameCall(i, j) == calls[i].op = calls[j].op /\ calls[i].args = calls[j].args

\* the dict without its timestamp
Untimed(out) == [f \in DOMAIN out \ {"generated_at"} |-> out[f]]

C26_FrameKept == [][merged_df' = merged_df /\ analytics_cache' = <<>>]_vars

\* after a failing and a successful call the cache is empty
C26_Witness ==
    /\ Len(calls) >= 2
    /\ \E i, j \in 1..Len(calls) : calls[i].out.status = "ok" /\ calls[j].out.status = "error"
    /\ \E r \in 1..Len(merged_df.rows) : \E c \in merged_df.columns : merged_df.rows[r].vals[c] = None
    /\ analytics_cache = <<>>

(***************************************************************************)
(* PolicySimulationEngine                                                  *)
(***************************************************************************)
MinTrainingRows == 10   \* prepare_training_data: "Need minimum data points"
MaxTrainRows == 11      \* rows of a training frame are 0..MaxTrainRows
TestRows == 6           \* the rows of the sample_data fixture of the tests

feature_columns == <<"doctor_density", "nurse_density", "health_spending">>
target_column == "life_expectancy"
TrainingColumns == {feature_columns[j] : j \in 1..Len(feature_columns)} \cup {target_column}

Raised(type, message) == [status |-> "raised", type |-> type, message |-> message]

\* df[feature_columns + [target_column]].dropna()
clean_df(df) == SelectSeq(df.rows, LAMBDA r : \A c \in TrainingColumns : r.vals[c] # None)

\* prepare_training_data: X and y of the rows without a missing value; a frame without
\* one of the four columns raises KeyError, fewer than MinTrainingRows rows ValueError
prepare_training_data(df) ==
    IF ~(TrainingColumns \subseteq df.columns)
    THEN Raised("KeyError", "not in index")
    ELSE LET clean == clean_df(df)
         IN  IF Len(clean) < MinTrainingRows
             THEN Raised("ValueError", "Insufficient data for training")
             ELSE [status |-> "ok",
                   X |-> [i \in 1..Len(clean) |->
                            [j \in 1..Len(feature_columns) |->
                                clean[i].vals[feature_columns[j]][1]]],
                   y |-> [i \in 1..Len(clean) |-> clean[i].vals[target_column][1]]]

\* train_test_split(X, y, test_size=0.2): the test set has ceil(0.2 * n) samples
test_samples(n) == (n + 4) \div 5

\* a train_model that marks the engine trained although the preparation raised
train_model_bad(eng, df) ==
    LET p == prepare_training_data(df)
    IN  IF p.status # "ok" THEN [engine |-> [eng EXCEPT !.is_trained = TRUE], out |-> p]
        ELSE LET n == Len(p.X)
                 metrics == [training_samples |-> n - test_samples(n),
                             test_samples |-> test_samples(n)]
             IN  [engine |-> [is_trained |-> TRUE,
                              feature_importance |->
                                  [c \in {feature_columns[j] : j \in 1..Len(feature_columns)}
                                     |-> CHOOSE j \in 1..Len(feature_columns) :
                                             feature_columns[j] = c],
                              model_metrics |-> metrics,
                              fitted |-> TRUE],
                  out |-> [status |-> "ok", metrics |-> metrics]]

\* train_model: the engine after the call and what the call returns or raises.  The
\* fitted coefficients and the scores computed from them are not modelled:
\* feature_importance maps each feature name to the index of its coefficient in coef_,
\* model_metrics keeps the two sample counts.
train_model(eng, df) ==
    LET p == prepare_training_data(df)
    IN  IF p.status # "ok" THEN [engine |-> eng, out |-> p]
        ELSE LET n == Len(p.X)
                 metrics == [training_samples |-> n - test_samples(n),
                             test_samples |-> test_samples(n)]
             IN  [engine |-> [is_trained |-> TRUE,
                              feature_importance |->
                                  [c \in {feature_columns[j] : j \in 1..Len(feature_columns)}
                                     |-> CHOOSE j \in 1..Len(feature_columns) :
                                             feature_columns[j] = c],
                              model_metrics |-> metrics,
                              fitted |-> TRUE],
                  out |-> [status |-> "ok", metrics |-> metrics]]

\* predict_life_expectancy: the prediction is the fitted model's value at the point,
\* kept as the point itself
predict_life_expectancy(eng, doctor_density, nurse_density, health_spending) ==
    IF ~eng.is_trained
    THEN Raised("ValueError", "Model must be trained before making predictions")
    ELSE [status |-> "ok",
          prediction |-> <<doctor_density, nurse_density, health_spending>>,
          model_metrics |-> eng.model_metrics]

\* dict.get(key, default)
dict_get(dict, key, default) == IF key \in DOMAIN dict THEN dict[key] ELSE default

\* run_simulation: the fields of the result computed from the arguments and the engine
run_simulation(eng, country, baseline_data, parameters) ==
    IF ~eng.is_trained
    THEN Raised("ValueError", "Model must be trained before running simulations")
    ELSE LET point == [c \in {feature_columns[j] : j \in 1..Len(feature_columns)} |->
                          dict_get(parameters, c, dict_get(baseline_data, c, 0))]
             p == predict_life_expectancy(eng, point["doctor_density"],
                                          point["nurse_density"], point["health_spending"])
         IN  [status |-> "ok", country |-> country, baseline |-> baseline_data,
              parameters |-> point, prediction |-> p.prediction,
              model_metrics |-> p.model_metrics]

get_model_info(eng) ==
    IF ~eng.is_trained THEN [status |-> "not_trained"]
    ELSE [status |-> "trained", feature_importance |-> eng.feature_importance,
          metrics |-> eng.model_metrics, model_type |-> "LinearRegression",
          features |-> feature_columns, target |-> target_column]

\* a frame of n rows ordered by country and year, as a pivot returns them: the ESP rows,
\* then as many or one fewer PRT rows; holes are the missing <<row, column>> cells
TrainingFrame(columns, n, holes) ==
    [columns |-> columns, raises |-> {},
     rows |-> [i \in 1..n |->
                 [country |-> IF i <= (n + 1) \div 2 THEN "ESP" ELSE "PRT",
                  year |-> FirstYear + (IF i <= (n + 1) \div 2 THEN i - 1
                                        ELSE i - 1 - ((n + 1) \div 2)),
                  vals |-> [c \in columns |->
                              IF <<i, c>> \in holes THEN None ELSE Some(1 + (i % 3))]]]]

TrainingFrames ==
    {TrainingFrame(columns, n, holes) :
        columns \in {TrainingColumns, TrainingColumns \ {"nurse_density"},
                     TrainingColumns \cup {"pharmacist_density"}},
        n \in 0..MaxTrainRows,
        holes \in {{}, {<<1, "life_expectancy">>},
                   {<<2, "doctor_density">>, <<3, "health_spending">>}}}

SimulationParameters ==
    {<<>>, [doctor_density |-> 2, nurse_density |-> 3, health_spending |-> 1]}
SampleBaseline ==
    [life_expectancy |-> 2, doctor_density |-> 1, nurse_density |-> 1,
     health_spending |-> 1, year |-> FirstYear]

InitEngine ==
    /\ merged_df \in TrainingFrames
    /\ country_data = <<>>
    /\ rankings = NoRankings
    /\ request = NoRequest
    /\ result = NoResult
    /\ NoOtherState

\* the call is logged with what it returned or raised
EngineCall(op, out) ==
    /\ result' = [op |-> op, out |-> out]
    /\ calls' = Append(calls, [op |-> op, out |-> out])
    /\ UNCHANGED <<country_data, rankings, request, merged_df, analytics_cache, now, api>>

PrepareTrainingData ==
    /\ Len(calls) < MaxCalls
    /\ EngineCall("prepare_training_data", prepare_training_data(merged_df))
    /\ UNCHANGED engine

TrainModel ==
    /\ Len(calls) < MaxCalls
    /\ LET t == train_model(engine, merged_df)
       IN  /\ engine' = t.engine
           /\ EngineCall("train_model", t.out)

PredictLifeExpectancy ==
    /\ Len(calls) < MaxCalls
    /\ EngineCall("predict_life_expectancy", predict_life_expectancy(engine, 2, 3, 1))
    /\ UNCHANGED engine

RunSimulation ==
    /\ Len(calls) < MaxCalls
    /\ \E parameters \in SimulationParameters :
          EngineCall("run_simulation",
                     run_simulation(engine, "PRT", SampleBaseline, parameters))
    /\ UNCHANGED engine

GetModelInfo ==
    /\ Len(calls) < MaxCalls
    /\ EngineCall("get_model_info", get_model_info(engine))
    /\ UNCHANGED engine

NextEngine ==
    \/ PrepareTrainingData
    \/ TrainModel
    \/ PredictLifeExpectancy
    \/ RunSimulation
    \/ GetModelInfo

SpecEngine == InitEngine /\ [][NextEngine]_vars

(***************************************************************************)
(* Claims on the PolicySimulationEngine                                    *)
(***************************************************************************)
\* a train_model has returned before call i
TrainedBefore(i) ==
    \E j \in 1..(i - 1) : calls[j].op = "train_model" /\ calls[j].out.status = "ok"

CompleteRows == Len(clean_df(merged_df))

\* C27: a call made before any train_model has returned raises ValueError 'Model must
\* be trained ...' when it is predict_life_expectancy or run_simulation and reports
\* 'not_trained' when it is get_model_info; get_model_info reports 'trained' exactly
\* when is_trained is True
C27_TrainingGate ==
    /\ \A i \in 1..Len(calls) :
          ~TrainedBefore(i) =>
             /\ calls[i].op = "predict_life_expectancy" =>
                   calls[i].out = Raised("ValueError",
                                         "Model must be trained before making predictions")
             /\ calls[i].op = "run_simulation" =>
                   calls[i].out = Raised("ValueError",
                                         "Model must be trained before running simulations")
             /\ calls[i].op = "get_model_info" => calls[i].out.status = "not_trained"
    /\ result.op = "get_model_info" =>
          (result.out.status = "trained" <=> engine.is_trained)

\* a train_model that raised, then a prediction that is refused
C27_Witness ==
    /\ Len(calls) = 3
    /\ calls[1].op = "train_model" /\ calls[1].out.status = "raised"
    /\ calls[2].op = "predict_life_expectancy" /\ calls[2].out.status = "raised"
    /\ calls[3].op = "get_model_info" /\ calls[3].out.status = "not_trained"

\* C28 as stated: prepare_training_data returns one sample of three features per
\* complete row, train_model on such data sets is_trained and records three
\* feature_importance entries; both succeed on TestRows complete rows, and a single-row
\* frame raises ValueError 'Insufficient data for training'
C28_SamplePerCompleteRow ==
    /\ (result.op = "prepare_training_data" /\ result.out.status = "ok") =>
          /\ Len(result.out.X) = CompleteRows
          /\ Len(result.out.y) = CompleteRows
          /\ \A i \in 1..Len(result.out.X) : Len(result.out.X[i]) = 3
    /\ (/\ result.op = "prepare_training_data"
        /\ TrainingColumns \subseteq merged_df.columns
        /\ CompleteRows = TestRows)
          => result.out.status = "ok"
    /\ (/\ result.op = "train_model"
        /\ TrainingColumns \subseteq merged_df.columns
        /\ CompleteRows = TestRows)
          => /\ engine.is_trained
             /\ Cardinality(DOMAIN engine.feature_importance) = 3
    /\ (/\ result.op \in {"prepare_training_data", "train_model"}
        /\ TrainingColumns \subseteq merged_df.columns
        /\ Len(merged_df.rows) = 1)
          => result.out = Raised("ValueError", "Insufficient data for training")

(***************************************************************************)
(* The simulation API: initialize_services, retrain_model, run_simulation  *)
(***************************************************************************)
\* pivoted_df.fillna(method='ffill'): a missing cell takes the last value above it
RECURSIVE ffill(_, _, _)
ffill(rows, c, i) ==
    IF i = 0 THEN None
    ELSE IF rows[i].vals[c] # None THEN rows[i].vals[c]
    ELSE ffill(rows, c, i - 1)

\* .fillna(method='bfill'): a cell still missing takes the first value below it
RECURSIVE bfill(_, _, _)
bfill(rows, c, i) ==
    IF i > Len(rows) THEN None
    ELSE IF ffill(rows, c, i) # None THEN ffill(rows, c, i)
    ELSE bfill(rows, c, i + 1)

\* merge_health_data: merged_df holds the pivot of the files of the data directory, no
\* column standing for no file; the result is the pivot with its gaps filled
merge_health_data(df) ==
    IF df.columns = {} THEN Raised("ValueError", "No data files found")
    ELSE [status |-> "ok",
          frame |-> [df EXCEPT !.rows =
                        [i \in 1..Len(df.rows) |->
                            [df.rows[i] EXCEPT !.vals =
                                [c \in df.columns |-> bfill(df.rows, c, i)]]]]]

BaselineMetrics ==
    {"life_expectancy", "doctor_density", "nurse_density", "pharmacist_density",
     "health_spending"}

\* get_baseline_data: per country the first row of the latest year among its rows
\* without a missing value; a country without such a row has no baseline
get_baseline_data(df) ==
    LET complete(country) ==
            SelectSeq(df.rows, LAMBDA r : /\ r.country = country
                                          /\ \A c \in df.columns : r.vals[c] # None)
        countries == {df.rows[i].country : i \in 1..Len(df.rows)}
        latest_data(country) ==
            LET rows == complete(country)
                k == CHOOSE k \in 1..Len(rows) :
                        /\ \A m \in 1..Len(rows) : rows[m].year <= rows[k].year
                        /\ \A m \in 1..(k - 1) : rows[m].year # rows[k].year
            IN  rows[k]
    IN  [country \in {c \in countries : complete(c) # <<>>} |->
            LET latest == latest_data(country)
            IN  [m \in BaselineMetrics |->
                    IF m \in df.columns THEN latest.vals[m][1] ELSE 0]
                @@ [year |-> latest.year]]

HTTPException(status_code, detail) ==
    [status |-> "http_error", status_code |-> status_code, detail |-> detail]

\* the load-train-cache sequence shared by initialize_services and retrain_model: the
\* engine after it, the data it trained on, the baselines it computed, or what it raised
load_and_train(eng, df) ==
    LET health_data == merge_health_data(df)
    IN  IF health_data.status # "ok"
        THEN [status |-> "raised", engine |-> eng, exception |-> health_data]
        ELSE LET t == train_model(eng, health_data.frame)
             IN  IF t.out.status # "ok"
                 THEN [status |-> "raised", engine |-> t.engine, exception |-> t.out]
                 ELSE [status |-> "ok", engine |-> t.engine,
                       health_data |-> health_data.frame,
                       model_metrics |-> t.out.metrics,
                       baseline_data |-> get_baseline_data(health_data.frame)]

\* the data directories: no file; too few rows; enough rows with gaps and without;
\* enough rows and no nurse file
DataDirectories ==
    {TrainingFrame({}, 0, {}),
     TrainingFrame(TrainingColumns, TestRows, {}),
     TrainingFrame(TrainingColumns \cup {"pharmacist_density"}, MinTrainingRows,
                   {<<1, "life_expectancy">>, <<MinTrainingRows, "pharmacist_density">>}),
     TrainingFrame(TrainingColumns, MinTrainingRows + 1, {}),
     TrainingFrame(TrainingColumns \ {"nurse_density"}, MinTrainingRows, {})}

InitApi ==
    /\ merged_df \in DataDirectories
    /\ country_data = <<>>
    /\ rankings = NoRankings
    /\ request = NoRequest
    /\ result = NoResult
    /\ NoOtherState

\* the request is logged with its response and with the data a training of it used
ApiCall(entry) ==
    /\ Len(calls) < MaxCalls
    /\ result' = [op |-> entry.op, out |-> entry.out]
    /\ calls' = Append(calls, entry)
    /\ UNCHANGED <<country_data, rankings, request, merged_df, analytics_cache, now>>

\* the startup event: runs once
InitializeServices ==
    /\ \A i \in 1..Len(calls) : calls[i].op # "initialize_services"
    /\ LET r == load_and_train(engine, merged_df)
       IN  IF r.status = "ok"
           THEN /\ engine' = r.engine
                /\ api' = [model_trained |-> TRUE, baseline_data_cache |-> r.baseline_data]
                /\ ApiCall([op |-> "initialize_services", out |-> [status |-> "ok"],
                            trained_on |-> Some(r.health_data)])
           ELSE /\ engine' = r.engine
                /\ api' = api
                /\ ApiCall([op |-> "initialize_services", out |-> r.exception,
                            trained_on |-> None])

\* POST /model/retrain
RetrainModel ==
    LET r == load_and_train(engine, merged_df)
    IN  IF r.status = "ok"
        THEN /\ engine' = r.engine
             /\ api' = [api EXCEPT !.baseline_data_cache = r.baseline_data]
             /\ ApiCall([op |-> "retrain_model",
                         out |-> [status |-> "success", model_metrics |-> r.model_metrics,
                                  countries_loaded |->
                                      Cardinality(DOMAIN r.baseline_data)],
                         trained_on |-> Some(r.health_data)])
        ELSE /\ engine' = r.engine
             /\ api' = api
             /\ ApiCall([op |-> "retrain_model",
                         out |-> HTTPException(500, r.exception.message),
                         trained_on |-> None])

\* the response of POST /run
run_simulation_response(a, eng, country, parameters) ==
    IF ~a.model_trained THEN HTTPException(503, "Simulation engine not ready")
    ELSE IF country \notin DOMAIN a.baseline_data_cache
    THEN HTTPException(404, "Country not found in baseline data")
    ELSE LET r == run_simulation(eng, country, a.baseline_data_cache[country], parameters)
         IN  IF r.status = "raised" THEN HTTPException(500, r.message)
             ELSE [status |-> "ok", status_code |-> 200, body |-> r]

\* POST /run
RunSimulationRequest ==
    /\ \E country \in AnalyticsCountries \cup {"SWE"} :
          ApiCall([op |-> "run_simulation", country |-> country,
                   in_cache |-> country \in DOMAIN api.baseline_data_cache,
                   out |-> run_simulation_response(api, engine, country,
                              [doctor_density |-> 2, nurse_density |-> 3,
                               health_spending |-> 1]),
                   trained_on |-> None])
    /\ UNCHANGED <<engine, api>>

\* the files of the data directory are replaced
DataChange ==
    /\ Len(calls) < MaxCalls
    /\ \E df \in DataDirectories \ {merged_df} : merged_df' = df
    /\ UNCHANGED <<country_data, rankings, request, result, analytics_cache, now, calls,
                   engine, api>>

NextApi ==
    \/ InitializeServices
    \/ RetrainModel
    \/ RunSimulationRequest
    \/ DataChange

SpecApi == InitApi /\ [][NextApi]_vars

(***************************************************************************)
(* Claims on the simulation API                                            *)
(***************************************************************************)
\* the data of the last training that succeeded
TrainedOn ==
    LET k == CHOOSE k \in 1..Len(calls) :
                /\ calls[k].trained_on # None
                /\ \A m \in (k + 1)..Len(calls) : calls[m].trained_on = None
    IN  calls[k].trained_on[1]

\* C30: once retrain_model has returned 'success', a later run_simulation for a country
\* of the baseline_data_cache is not rejected with 503, and whenever model_trained is
\* True the cache holds the baselines of the data the model was trained on
C30_ReadyAfterRetrain ==
    /\ \A i, j \in 1..Len(calls) :
          (/\ i < j
           /\ calls[i].op = "retrain_model" /\ calls[i].out.status = "success"
           /\ calls[j].op = "run_simulation" /\ calls[j].in_cache)
             => ~(calls[j].out.status = "http_error" /\ calls[j].out.status_code = 503)
    /\ api.model_trained => api.baseline_data_cache = get_baseline_data(TrainedOn)
====
